---- MODULE Spec2Model ----
(***************************************************************************)
(* Model of Urho3D's WorkQueue (Source/Urho3D/Core/WorkQueue.cpp): the     *)
(* pooled work items, the priority queue, the worker loop, the pause gate  *)
(* built on the queue mutex, the completion barrier and the frame hook.    *)
(*                                                                         *)
(* The main thread (thread index 0) calls the public operations; worker    *)
(* threads 1..threads run ProcessItems.  Every operation is cut at its     *)
(* synchronisation points (lock, unlock, the unlocked reads of queue_ and  *)
(* of the completed_ flags), so that the interleavings of the workers with *)
(* the main thread are those of the code.                                  *)
(***************************************************************************)
EXTENDS Integers, Sequences, FiniteSets, TLC

\* ---------------------------------------------------------------- bounds
\* Number of WorkItem instances that can exist at once.
NumItems == 2
\* Capacity of the worker arrays: the largest number of worker threads
\* any configuration asks CreateThreads for.
MaxThreads == 2
\* Largest number of worker threads in the general configuration.
AppThreads == 1
\* Number of WorkItem instances in the configuration without workers.
SeqItems == 4
\* Number of WorkItem instances in the frame-loop configuration.
FrameItems == 3
\* Largest number of workers in the configuration checked for progress.
FairThreads == 1

\* ------------------------------------------------------ program constants
\* M_MAX_UNSIGNED is 0xffffffff, the largest value of an unsigned priority_.
\* Priorities are only ever compared, so it is modelled by the largest
\* integer of the model checker, above every other priority.
M_MAX_UNSIGNED == 2147483647
\* tolerance_ and maxNonThreadedWorkMs_ as set by the constructor.
Tolerance == 10
MaxNonThreadedWorkMs == 5

\* Priorities a submitter gives an item, thresholds given to Complete, and
\* the running times (in microseconds) of an entry point in the frame hook.
Priorities == {1, 3}
SeqPriorities == {1, 3, 5}
Thresholds == {0, 3}
WorkUSec == {2000, 3000}

Items == 1..SeqItems
\* The null SharedPtr<WorkItem>.
Null == 0
\* Thread index of the main thread, as passed to workFunction_(item, 0).
Main == 0

VARIABLES
    items,        \* the fields of every WorkItem instance
    allocated,    \* the WorkItem instances that exist
    queue,        \* queue_: raw pointers, in dequeue order
    workItems,    \* workItems_: the live list
    poolItems,    \* poolItems_: the free list
    lastSize,     \* lastSize_
    threads,      \* threads.size()
    paused,       \* paused_
    pausing,      \* pausing_
    shutDown,     \* shutDown_
    completing,   \* completing_
    queueMutex,   \* owner of queueMutex_: {} when free, else {thread index}
    relocked,     \* the main thread re-acquired a mutex it already held
    mainPc,       \* position of the main thread
    retPc,        \* where an inlined Pause()/Resume() returns to
    arg,          \* argument of the operation in progress (an item or a priority)
    argList,      \* argument of RemoveWorkItems
    curItem,      \* item a main-thread loop has popped and is executing
    timer,        \* HiresTimer of the frame hook, microseconds elapsed
    ret,          \* return value of the Remove* call that just returned
    wPc,          \* position of every worker in ProcessItems
    wasActive,    \* ProcessItems' local wasActive, per worker
    wItem,        \* item a worker has popped and is executing
    execCount,    \* entry-point invocations of an item in its current submission
    frameOnly,    \* from now on the application only runs its frame loop
    pausedBy,     \* caller of the Pause() that paused the scheduler ("Pause" for the
                  \* application), "none" once Resume() has been called since
    sentEvents    \* per item, the E_WORKITEMCOMPLETED events sent for its current
                  \* submission: what the handler finds in the item it is given

vars == <<items, allocated, queue, workItems, poolItems, lastSize, threads,
          paused, pausing, shutDown, completing, queueMutex, relocked,
          mainPc, retPc, arg, argList, curItem, timer, ret, wPc, wasActive, wItem,
          execCount, frameOnly, pausedBy, sentEvents>>

\* ------------------------------------------------------------ helpers
Range(s) == {s[i] : i \in 1..Len(s)}

Min(a, b) == IF a < b THEN a ELSE b

\* Position of x in s, 0 when absent (std::find).
IndexOf(s, x) ==
    IF x \in Range(s) THEN CHOOSE i \in 1..Len(s) : s[i] = x /\ \A j \in 1..(i-1) : s[j] # x
    ELSE 0

\* s without its element at position i (list::erase).
Erase(s, i) == SubSeq(s, 1, i - 1) \o SubSeq(s, i + 1, Len(s))

\* s with x inserted before position i (list::insert).
InsertAt(s, i, x) == SubSeq(s, 1, i - 1) \o <<x>> \o SubSeq(s, i, Len(s))

\* A freshly constructed WorkItem.
DefaultItem ==
    [start |-> FALSE, end |-> FALSE, aux |-> FALSE, workFunction |-> FALSE,
     priority |-> 0, sendEvent |-> FALSE, completed |-> FALSE, pooled |-> FALSE]

\* Instances the caller holds and that are neither live nor in the free list.
Held == allocated \ (Range(workItems) \cup Range(poolItems))

Workers == 1..threads

\* ------------------------------------------------- pure parts of the code
\* A scan that stops only at an entry of strictly lower priority.
InsertsBefore_Strict(existing, new) == existing < new

\* WorkQueue::AddWorkItem, the test of the scan: insert before entry `existing`.
InsertsBefore(existing, new) == existing <= new

\* An insertion that ignores priorities.
QueueInsert_Append(q, it, its) == Append(q, it)

\* WorkQueue::AddWorkItem, "Find position for new item".
QueueInsert(q, it, its) ==
    IF q = <<>> THEN <<it>>
    ELSE LET hits == {i \in 1..Len(q) : InsertsBefore(its[q[i]].priority, its[it].priority)}
         IN  IF hits = {} THEN Append(q, it)
             ELSE InsertAt(q, CHOOSE i \in hits : \A j \in hits : i <= j, it)

\* A reset that gives the item the smallest priority value.
ResetItem_LowestPriority(rec) ==
    [rec EXCEPT !.start = FALSE, !.end = FALSE, !.aux = FALSE,
                !.workFunction = FALSE, !.priority = 0,
                !.sendEvent = FALSE, !.completed = FALSE]

\* A reset that leaves the context pointers and the event flag as they are.
ResetItem_KeepsContext(rec) ==
    [rec EXCEPT !.workFunction = FALSE, !.priority = M_MAX_UNSIGNED,
                !.completed = FALSE]

\* WorkQueue::ReturnToPool, the reset of a pooled item's fields.
ResetItem(rec) ==
    [rec EXCEPT !.start = FALSE, !.end = FALSE, !.aux = FALSE,
                !.workFunction = FALSE, !.priority = M_MAX_UNSIGNED,
                !.sendEvent = FALSE, !.completed = FALSE]

\* A return to the free list that leaves the fields as they are.
ReturnToPool_NoReset(its, pool, it) ==
    IF its[it].pooled
    THEN [items |-> its, pool |-> Append(pool, it)]
    ELSE [items |-> its, pool |-> pool]

\* WorkQueue::ReturnToPool: the item fields and the free list afterwards.
ReturnToPool(its, pool, it) ==
    IF its[it].pooled
    THEN [items |-> [its EXCEPT ![it] = ResetItem(@)], pool |-> Append(pool, it)]
    ELSE [items |-> its, pool |-> pool]

\* A test that purges every completed item.
Purgeable_AnyPriority(rec, priority) == rec.completed

\* WorkQueue::PurgeCompleted, the test that selects an item for purging.
Purgeable(rec, priority) == rec.completed /\ rec.priority >= priority

\* What a handler of E_WORKITEMCOMPLETED finds in the item eventData[P_ITEM]
\* points to: TRUE when the entry point, the flags and the payload are still
\* those of the completed submission.
PayloadOf(rec) ==
    rec.workFunction /\ rec.start /\ rec.end /\ rec.aux /\ rec.sendEvent /\ rec.completed

\* A purge that sends the event whatever sendEvent_ says.
SendCompletionEvent_Always(sent, its, it) ==
    [sent EXCEPT ![it] = Append(@, PayloadOf(its[it]))]

\* WorkQueue::PurgeCompleted, "if ((*i)->sendEvent_) { ...; SendEvent(
\* E_WORKITEMCOMPLETED, eventData); }": the events sent so far, per item.
SendCompletionEvent(sent, its, it) ==
    IF its[it].sendEvent THEN [sent EXCEPT ![it] = Append(@, PayloadOf(its[it]))]
    ELSE sent

\* WorkQueue::PurgeCompleted: the scan of workItems_.  st holds the item
\* fields, the entries kept so far, the free list and the events sent; rest
\* is still to scan.
RECURSIVE PurgeScan(_, _, _)
PurgeScan(st, rest, priority) ==
    IF rest = <<>> THEN st
    ELSE LET it == Head(rest)
         IN  IF Purgeable(st.items[it], priority)
             THEN LET sent == SendCompletionEvent(st.sent, st.items, it)
                      r == ReturnToPool(st.items, st.pool, it)
                  IN  PurgeScan([items |-> r.items, kept |-> st.kept, pool |-> r.pool,
                                 sent |-> sent],
                                Tail(rest), priority)
             ELSE PurgeScan([st EXCEPT !.kept = Append(@, it)], Tail(rest), priority)

PurgeCompleted(priority) ==
    PurgeScan([items |-> items, kept |-> <<>>, pool |-> poolItems, sent |-> sentEvents],
              workItems, priority)

\* A test of the live list that only looks at queued items.
IsCompleted_QueueOnly(priority) ==
    \A i \in 1..Len(queue) : items[queue[i]].priority < priority

\* A test that lets items of exactly the threshold priority through.
IsCompleted_Strict(priority) ==
    \A i \in 1..Len(workItems) :
        ~(items[workItems[i]].priority > priority /\ ~items[workItems[i]].completed)

\* WorkQueue::IsCompleted.
IsCompleted(priority) ==
    \A i \in 1..Len(workItems) :
        ~(items[workItems[i]].priority >= priority /\ ~items[workItems[i]].completed)

\* WorkQueue::PurgePool: the number of entries popped from the front of a
\* free list `pool` when the previous purge saw `last` entries.
PurgePoolCount(pool, last) ==
    LET difference == last - Len(pool)
    IN  IF difference > Tolerance THEN Min(difference, Len(pool)) ELSE 0

PurgePool(pool, last) == SubSeq(pool, PurgePoolCount(pool, last) + 1, Len(pool))

\* execCount restricted to the live list `live`: a submission ends when the
\* item leaves the live list.
ExecOf(live) == [i \in Items |-> IF i \in Range(live) THEN execCount[i] ELSE 0]

\* ------------------------------------------------------------------ Init
Init ==
    /\ items = [i \in Items |-> DefaultItem]
    /\ allocated = {}
    /\ queue = <<>>
    /\ workItems = <<>>
    /\ poolItems = <<>>
    /\ lastSize = 0
    /\ threads = 0
    /\ paused = FALSE
    /\ pausing = FALSE
    /\ shutDown = FALSE
    /\ completing = FALSE
    /\ queueMutex = {}
    /\ relocked = FALSE
    /\ mainPc = "idle"
    /\ retPc = "idle"
    /\ arg = Null
    /\ argList = <<>>
    /\ curItem = Null
    /\ timer = 0
    /\ ret = -1
    /\ wPc = [w \in 1..MaxThreads |-> "none"]
    /\ wasActive = [w \in 1..MaxThreads |-> FALSE]
    /\ wItem = [w \in 1..MaxThreads |-> Null]
    /\ execCount = [i \in Items |-> 0]
    /\ frameOnly = FALSE
    /\ pausedBy = "none"
    /\ sentEvents = [i \in Items |-> <<>>]

itemVars   == <<items, allocated>>
listVars   == <<queue, workItems, poolItems, lastSize>>
flagVars   == <<threads, paused, pausing, shutDown, completing>>
mutexVars  == <<queueMutex, relocked>>
localVars  == <<retPc, arg, argList, curItem, timer, ret>>
workerVars == <<wPc, wasActive, wItem>>
envVars    == <<frameOnly, pausedBy, sentEvents>>

\* The main thread is between two calls and the application still makes them.
Calling == mainPc = "idle" /\ ~frameOnly

\* ------------------------------------------------------------ the pool
\* The instance a "new WorkItem()" yields: instances are numbered, and the
\* lowest number not in use stands for the new one.
NewInstance == CHOOSE i \in Items \ allocated : \A j \in Items \ allocated : i <= j

\* WorkQueue::GetFreeItem: the front of the free list, else a new instance
\* marked pooled.  The returned instance is then held by the caller.  At
\* most `limit` instances exist at once.
GetFreeItem(limit) ==
    /\ Calling
    /\ IF Len(poolItems) > 0
       THEN /\ poolItems' = Tail(poolItems)
            /\ UNCHANGED itemVars
       ELSE /\ Cardinality(allocated) < limit
            /\ allocated' = allocated \cup {NewInstance}
            /\ items' = [items EXCEPT ![NewInstance] = [DefaultItem EXCEPT !.pooled = TRUE]]
            /\ UNCHANGED poolItems
    /\ UNCHANGED <<queue, workItems, lastSize, flagVars, mutexVars, mainPc, localVars,
                   workerVars, execCount, envVars>>

\* The caller constructs a WorkItem of its own (not pooled).
NewWorkItem(limit) ==
    /\ Calling
    /\ Cardinality(allocated) < limit
    /\ allocated' = allocated \cup {NewInstance}
    /\ items' = [items EXCEPT ![NewInstance] = DefaultItem]
    /\ UNCHANGED <<listVars, flagVars, mutexVars, mainPc, localVars, workerVars,
                   execCount, envVars>>

\* workItems_.erase(i) drops the live list's reference.  An item that is
\* not pooled is referenced by nothing else once it has left the live list
\* (the free list holds the pooled ones), and the instance is destroyed.
\* `before` and `after` are the live list around the erasures, its the item
\* fields after them.
Dropped(before, after, its) == {i \in Range(before) \ Range(after) : ~its[i].pooled}

ItemsAfterErase(before, after, its) ==
    [i \in Items |-> IF i \in Dropped(before, after, its) THEN DefaultItem ELSE its[i]]

\* ------------------------------------------------------------ AddWorkItem
\* A null submission that falls through to the end of AddWorkItem.
AddWorkItem_NullFallsThrough ==
    /\ Calling
    /\ mainPc' = IF threads > 0 THEN "add_unlock" ELSE "add_null"
    /\ UNCHANGED <<itemVars, listVars, flagVars, mutexVars, localVars, workerVars,
                   execCount, envVars>>

\* AddWorkItem(nullptr): "if (!item)", logs the error and returns.
AddWorkItem_Null ==
    /\ Calling
    /\ mainPc' = "add_null"
    /\ UNCHANGED <<itemVars, listVars, flagVars, mutexVars, localVars, workerVars,
                   execCount, envVars>>

\* The null submission has returned to its caller.
AddWorkItem_NullReturn ==
    /\ mainPc = "add_null"
    /\ mainPc' = "idle"
    /\ UNCHANGED <<itemVars, listVars, flagVars, mutexVars, localVars, workerVars,
                   execCount, envVars>>

\* A submission that does not record the item in the live list.
AddWorkItem_BeginNotLive(it, p, ev) ==
    /\ Calling
    /\ it \in Held
    /\ it \notin Range(workItems)
    /\ items' = [items EXCEPT ![it] =
                    [@ EXCEPT !.start = TRUE, !.end = TRUE, !.aux = TRUE,
                              !.workFunction = TRUE, !.priority = p,
                              !.sendEvent = ev, !.completed = FALSE]]
    /\ execCount' = [execCount EXCEPT ![it] = 0]
    /\ sentEvents' = [sentEvents EXCEPT ![it] = <<>>]
    /\ arg' = it
    /\ mainPc' = "add_lock"
    /\ UNCHANGED <<allocated, listVars, flagVars, mutexVars, retPc,
                   argList, curItem, timer, ret, workerVars, frameOnly, pausedBy>>

\* AddWorkItem(it) up to the lock.  The submitter has written the payload,
\* the priority p (or left the priority as it was) and sendEvent_ before the
\* call; the assert requires an item that is not in the live list.  The
\* events recorded for the item's previous submission are forgotten.
AddWorkItem_Begin(it, p, ev) ==
    /\ Calling
    /\ it \in Held
    /\ it \notin Range(workItems)
    /\ items' = [items EXCEPT ![it] =
                    [@ EXCEPT !.start = TRUE, !.end = TRUE, !.aux = TRUE,
                              !.workFunction = TRUE, !.priority = p,
                              !.sendEvent = ev, !.completed = FALSE]]
    /\ workItems' = Append(workItems, it)
    /\ execCount' = [execCount EXCEPT ![it] = 0]
    /\ sentEvents' = [sentEvents EXCEPT ![it] = <<>>]
    /\ arg' = it
    /\ mainPc' = "add_lock"
    /\ UNCHANGED <<allocated, queue, poolItems, lastSize, flagVars, mutexVars, retPc,
                   argList, curItem, timer, ret, workerVars, frameOnly, pausedBy>>

\* An AddWorkItem that goes on to the insertion without taking the mutex.
AddWorkItem_NoLock ==
    /\ mainPc = "add_lock"
    /\ mainPc' = "add_insert"
    /\ UNCHANGED <<itemVars, listVars, flagVars, mutexVars, localVars, workerVars,
                   execCount, envVars>>

\* "Make sure worker threads' list is safe to modify".
AddWorkItem_Lock ==
    /\ mainPc = "add_lock"
    /\ IF threads > 0 /\ ~paused
       THEN /\ queueMutex = {}
            /\ queueMutex' = {Main}
       ELSE UNCHANGED queueMutex
    /\ mainPc' = "add_insert"
    /\ UNCHANGED <<itemVars, listVars, flagVars, relocked, localVars, workerVars,
                   execCount, envVars>>

AddWorkItem_Insert ==
    /\ mainPc = "add_insert"
    /\ queue' = QueueInsert(queue, arg, items)
    /\ IF threads > 0
       THEN mainPc' = "add_unlock" /\ UNCHANGED arg
       ELSE mainPc' = "idle" /\ arg' = Null
    /\ UNCHANGED <<itemVars, workItems, poolItems, lastSize, flagVars, mutexVars, retPc,
                   argList, curItem, timer, ret, workerVars, execCount, envVars>>

\* An unlock that only releases the mutex AddWorkItem itself has taken.
AddWorkItem_UnlockOwn ==
    /\ mainPc = "add_unlock"
    /\ IF paused THEN UNCHANGED queueMutex ELSE queueMutex' = {}
    /\ mainPc' = "add_unpause"
    /\ UNCHANGED <<itemVars, listVars, flagVars, relocked, localVars, workerVars,
                   execCount, envVars>>

AddWorkItem_Unlock ==
    /\ mainPc = "add_unlock"
    /\ queueMutex' = {}
    /\ mainPc' = "add_unpause"
    /\ UNCHANGED <<itemVars, listVars, flagVars, relocked, localVars, workerVars,
                   execCount, envVars>>

AddWorkItem_Unpause ==
    /\ mainPc = "add_unpause"
    /\ paused' = FALSE
    /\ mainPc' = "idle"
    /\ arg' = Null
    /\ UNCHANGED <<itemVars, listVars, threads, pausing, shutDown, completing, mutexVars,
                   retPc, argList, curItem, timer, ret, workerVars, execCount, envVars>>

\* A removal that only looks the item up in the live list.
RemoveOne_LiveOnly(st, it) ==
    LET i == IndexOf(st.queue, it)
        j == IndexOf(st.live, it)
    IN  IF j # 0
        THEN LET r == ReturnToPool(st.items, st.pool, it)
             IN  [items |-> r.items,
                  queue |-> IF i # 0 THEN Erase(st.queue, i) ELSE st.queue,
                  live |-> Erase(st.live, j), pool |-> r.pool, n |-> st.n + 1]
        ELSE st

\* A removal that leaves the entry in the priority queue.
RemoveOne_KeepsQueued(st, it) ==
    LET i == IndexOf(st.queue, it)
        j == IndexOf(st.live, it)
    IN  IF i # 0 /\ j # 0
        THEN LET r == ReturnToPool(st.items, st.pool, it)
             IN  [items |-> r.items, queue |-> st.queue,
                  live |-> Erase(st.live, j), pool |-> r.pool, n |-> st.n + 1]
        ELSE st

\* --------------------------------------------------- Remove(WorkItem|Items)
\* The body shared by RemoveWorkItem and by one iteration of RemoveWorkItems:
\* st holds the item fields, the queue, the live list, the free list and the
\* number of items removed so far.
RemoveOne(st, it) ==
    LET i == IndexOf(st.queue, it)
        j == IndexOf(st.live, it)
    IN  IF i # 0 /\ j # 0
        THEN LET r == ReturnToPool(st.items, st.pool, it)
             IN  [items |-> r.items, queue |-> Erase(st.queue, i),
                  live |-> Erase(st.live, j), pool |-> r.pool, n |-> st.n + 1]
        ELSE st

RECURSIVE RemoveAll(_, _)
RemoveAll(st, list) ==
    IF list = <<>> THEN st ELSE RemoveAll(RemoveOne(st, Head(list)), Tail(list))

RemoveStart == [items |-> items, queue |-> queue, live |-> workItems,
                pool |-> poolItems, n |-> 0]

\* lock_guard<mutex> lock(queueMutex_) by the main thread, mutex not held by it.
Guard_Lock(from, to) ==
    /\ mainPc = from
    /\ queueMutex = {}
    /\ queueMutex' = {Main}
    /\ mainPc' = to
    /\ UNCHANGED <<itemVars, listVars, flagVars, relocked, localVars, workerVars,
                   execCount, envVars>>

\* lock_guard on a std::mutex the main thread already holds: undefined.  The
\* build either never returns from lock() or treats the mutex as recursive.
Guard_Relock(from, to) ==
    /\ mainPc = from
    /\ queueMutex = {Main}
    /\ \/ mainPc' = "hung" /\ UNCHANGED relocked
       \/ mainPc' = to /\ relocked' = TRUE
    /\ UNCHANGED <<itemVars, listVars, flagVars, queueMutex, localVars, workerVars,
                   execCount, envVars>>

\* ~lock_guard.
Guard_Unlock ==
    IF relocked THEN relocked' = FALSE /\ UNCHANGED queueMutex
    ELSE queueMutex' = {} /\ UNCHANGED relocked

RemoveWorkItem_Call(it) ==
    /\ Calling
    /\ IF it = Null
       THEN ret' = 0 /\ mainPc' = "rm_ret"
       ELSE mainPc' = "rm_lock" /\ UNCHANGED ret
    /\ arg' = it
    /\ UNCHANGED <<itemVars, listVars, flagVars, mutexVars, retPc, argList, curItem,
                   timer, workerVars, execCount, envVars>>

RemoveWorkItem_Lock == Guard_Lock("rm_lock", "rm_body")

RemoveWorkItem_Relock == Guard_Relock("rm_lock", "rm_body")

RemoveWorkItem_Body ==
    /\ mainPc = "rm_body"
    /\ LET st == RemoveOne(RemoveStart, arg)
       IN  /\ items' = ItemsAfterErase(workItems, st.live, st.items)
           /\ allocated' = allocated \ Dropped(workItems, st.live, st.items)
           /\ queue' = st.queue
           /\ workItems' = st.live
           /\ poolItems' = st.pool
           /\ ret' = st.n
           /\ execCount' = ExecOf(st.live)
    /\ Guard_Unlock
    /\ mainPc' = "rm_ret"
    /\ UNCHANGED <<lastSize, flagVars, retPc, arg, argList, curItem, timer,
                   workerVars, envVars>>

\* A RemoveWorkItems that does not take the mutex.
RemoveWorkItems_NoLock ==
    /\ mainPc = "rms_lock"
    /\ mainPc' = "rms_body"
    /\ UNCHANGED <<itemVars, listVars, flagVars, mutexVars, localVars, workerVars,
                   execCount, envVars>>

\* RemoveWorkItems(list) called by the application; ret is its local
\* "removed", which starts at 0.
RemoveWorkItems_Call(list) ==
    /\ Calling
    /\ argList' = list
    /\ ret' = 0
    /\ mainPc' = "rms_lock"
    /\ UNCHANGED <<itemVars, listVars, flagVars, mutexVars, retPc, arg, curItem, timer,
                   workerVars, execCount, envVars>>

RemoveWorkItems_Lock == Guard_Lock("rms_lock", "rms_body")

RemoveWorkItems_Relock == Guard_Relock("rms_lock", "rms_body")

RemoveWorkItems_Body ==
    /\ mainPc = "rms_body"
    /\ LET st == RemoveAll(RemoveStart, argList)
       IN  /\ items' = ItemsAfterErase(workItems, st.live, st.items)
           /\ allocated' = allocated \ Dropped(workItems, st.live, st.items)
           /\ queue' = st.queue
           /\ workItems' = st.live
           /\ poolItems' = st.pool
           /\ ret' = st.n
           /\ execCount' = ExecOf(st.live)
    /\ Guard_Unlock
    /\ mainPc' = "rm_ret"
    /\ UNCHANGED <<lastSize, flagVars, retPc, arg, argList, curItem, timer,
                   workerVars, envVars>>

\* One turn of the loop of RemoveWorkItems, under the mutex: the entry at
\* the iterator is the head of argList.
RemoveWorkItems_Iter ==
    /\ mainPc = "rms_body"
    /\ argList # <<>>
    /\ LET st == RemoveOne([RemoveStart EXCEPT !.n = ret], Head(argList))
       IN  /\ items' = ItemsAfterErase(workItems, st.live, st.items)
           /\ allocated' = allocated \ Dropped(workItems, st.live, st.items)
           /\ queue' = st.queue
           /\ workItems' = st.live
           /\ poolItems' = st.pool
           /\ ret' = st.n
           /\ execCount' = ExecOf(st.live)
    /\ argList' = Tail(argList)
    /\ UNCHANGED <<lastSize, flagVars, mutexVars, mainPc, retPc, arg, curItem, timer,
                   workerVars, envVars>>

\* The iterator has reached items.End(): "return removed" and ~lock_guard.
RemoveWorkItems_Done ==
    /\ mainPc = "rms_body"
    /\ argList = <<>>
    /\ Guard_Unlock
    /\ mainPc' = "rm_ret"
    /\ UNCHANGED <<itemVars, listVars, flagVars, localVars, workerVars, execCount,
                   envVars>>

\* The Remove* call has returned `ret` to its caller.
Remove_Return ==
    /\ mainPc = "rm_ret"
    /\ ret' = -1
    /\ arg' = Null
    /\ argList' = <<>>
    /\ mainPc' = "idle"
    /\ UNCHANGED <<itemVars, listVars, flagVars, mutexVars, retPc, curItem, timer,
                   workerVars, execCount, envVars>>

\* ---------------------------------------------------------- Pause / Resume
\* Pause() called by the application.
Pause_Call ==
    /\ Calling
    /\ mainPc' = "pause"
    /\ retPc' = "idle"
    /\ UNCHANGED <<itemVars, listVars, flagVars, mutexVars, arg, argList, curItem,
                   timer, ret, workerVars, execCount, envVars>>

\* A Pause that does not test paused_.
Pause_BeginAlways ==
    /\ mainPc = "pause"
    /\ pausing' = TRUE
    /\ mainPc' = "pause_lock"
    /\ UNCHANGED <<itemVars, listVars, threads, paused, shutDown, completing, mutexVars,
                   localVars, workerVars, execCount, envVars>>

\* WorkQueue::Pause, "if (!paused_) pausing_ = true".
Pause_Begin ==
    /\ mainPc = "pause"
    /\ IF ~paused
       THEN pausing' = TRUE /\ mainPc' = "pause_lock"
       ELSE mainPc' = retPc /\ UNCHANGED pausing
    /\ UNCHANGED <<itemVars, listVars, threads, paused, shutDown, completing, mutexVars,
                   localVars, workerVars, execCount, envVars>>

\* WorkQueue::Pause, queueMutex_.lock().
Pause_Lock ==
    /\ mainPc = "pause_lock"
    /\ queueMutex = {}
    /\ queueMutex' = {Main}
    /\ mainPc' = "pause_set"
    /\ UNCHANGED <<itemVars, listVars, flagVars, relocked, localVars, workerVars,
                   execCount, envVars>>

\* WorkQueue::Pause, "paused_ = true; pausing_ = false".
Pause_Set ==
    /\ mainPc = "pause_set"
    /\ paused' = TRUE
    /\ pausing' = FALSE
    /\ pausedBy' = CASE retPc = "cmp_purge" -> "Complete"
                     [] retPc = "spawn" -> "CreateThreads"
                     [] OTHER -> "Pause"
    /\ mainPc' = retPc
    /\ UNCHANGED <<itemVars, listVars, threads, shutDown, completing, mutexVars,
                   localVars, workerVars, execCount, frameOnly, sentEvents>>

\* Resume() called by the application.
Resume_Call ==
    /\ Calling
    /\ mainPc' = "resume"
    /\ retPc' = "idle"
    /\ UNCHANGED <<itemVars, listVars, flagVars, mutexVars, arg, argList, curItem,
                   timer, ret, workerVars, execCount, envVars>>

\* WorkQueue::Resume, "if (paused_) queueMutex_.unlock()".
Resume_Begin ==
    /\ mainPc = "resume"
    /\ IF paused
       THEN queueMutex' = {} /\ mainPc' = "resume_flag"
       ELSE mainPc' = retPc /\ UNCHANGED queueMutex
    /\ pausedBy' = "none"
    /\ UNCHANGED <<itemVars, listVars, flagVars, relocked, localVars, workerVars,
                   execCount, frameOnly, sentEvents>>

\* A Resume that releases the mutex and leaves paused_ set.
Resume_FlagKept ==
    /\ mainPc = "resume_flag"
    /\ mainPc' = retPc
    /\ UNCHANGED <<itemVars, listVars, flagVars, mutexVars, localVars, workerVars,
                   execCount, envVars>>

\* WorkQueue::Resume, "paused_ = false".
Resume_Flag ==
    /\ mainPc = "resume_flag"
    /\ paused' = FALSE
    /\ mainPc' = retPc
    /\ UNCHANGED <<itemVars, listVars, threads, pausing, shutDown, completing, mutexVars,
                   localVars, workerVars, execCount, envVars>>

\* ---------------------------------------------------- execution of an item
\* item->workFunction_(item, threadIndex): one more invocation of the entry point.
Invoke(it) == [execCount EXCEPT ![it] = Min(@ + 1, 2)]

\* item->completed_ = true.
MarkCompleted(it) == [items EXCEPT ![it].completed = TRUE]

\* ----------------------------------------------------------------- Complete
\* A Complete that starts its drain without Resume().
Complete_CallNoResume(priority) ==
    /\ Calling
    /\ completing' = TRUE
    /\ arg' = priority
    /\ IF threads > 0
       THEN mainPc' = "cmp_loop" /\ retPc' = "cmp_loop"
       ELSE mainPc' = "cmp_nt" /\ UNCHANGED retPc
    /\ UNCHANGED <<itemVars, listVars, threads, paused, pausing, shutDown, mutexVars,
                   argList, curItem, timer, ret, workerVars, execCount, envVars>>

Complete_Call(priority) ==
    /\ Calling
    /\ completing' = TRUE
    /\ arg' = priority
    /\ IF threads > 0
       THEN mainPc' = "resume" /\ retPc' = "cmp_loop"
       ELSE mainPc' = "cmp_nt" /\ UNCHANGED retPc
    /\ UNCHANGED <<itemVars, listVars, threads, paused, pausing, shutDown, mutexVars,
                   argList, curItem, timer, ret, workerVars, execCount, envVars>>

\* "while (!queue_.empty())": read without the lock.
Complete_Loop ==
    /\ mainPc = "cmp_loop"
    /\ mainPc' = IF queue # <<>> THEN "cmp_lock" ELSE "cmp_wait"
    /\ UNCHANGED <<itemVars, listVars, flagVars, mutexVars, localVars, workerVars,
                   execCount, envVars>>

\* A drain that enters its critical section without the mutex.
Complete_NoLock ==
    /\ mainPc = "cmp_lock"
    /\ mainPc' = "cmp_locked"
    /\ UNCHANGED <<itemVars, listVars, flagVars, mutexVars, localVars, workerVars,
                   execCount, envVars>>

Complete_Lock ==
    /\ mainPc = "cmp_lock"
    /\ queueMutex = {}
    /\ queueMutex' = {Main}
    /\ mainPc' = "cmp_locked"
    /\ UNCHANGED <<itemVars, listVars, flagVars, relocked, localVars, workerVars,
                   execCount, envVars>>

\* A drain that takes the front item whatever its priority.
Complete_PopAny ==
    /\ mainPc = "cmp_locked"
    /\ IF queue # <<>>
       THEN /\ curItem' = Head(queue)
            /\ queue' = Tail(queue)
            /\ mainPc' = "cmp_run"
       ELSE /\ mainPc' = "cmp_wait"
            /\ UNCHANGED <<curItem, queue>>
    /\ queueMutex' = {}
    /\ UNCHANGED <<itemVars, workItems, poolItems, lastSize, flagVars, relocked, retPc,
                   arg, argList, timer, ret, workerVars, execCount, envVars>>

\* Under the lock: pop the front when its priority reaches the threshold,
\* else leave the loop; unlock either way.
Complete_Pop ==
    /\ mainPc = "cmp_locked"
    /\ IF queue # <<>> /\ items[Head(queue)].priority >= arg
       THEN /\ curItem' = Head(queue)
            /\ queue' = Tail(queue)
            /\ mainPc' = "cmp_run"
       ELSE /\ mainPc' = "cmp_wait"
            /\ UNCHANGED <<curItem, queue>>
    /\ queueMutex' = {}
    /\ UNCHANGED <<itemVars, workItems, poolItems, lastSize, flagVars, relocked, retPc,
                   arg, argList, timer, ret, workerVars, execCount, envVars>>

Complete_Run ==
    /\ mainPc = "cmp_run"
    /\ execCount' = Invoke(curItem)
    /\ items' = MarkCompleted(curItem)
    /\ curItem' = Null
    /\ mainPc' = "cmp_loop"
    /\ UNCHANGED <<allocated, listVars, flagVars, mutexVars, retPc, arg, argList, timer,
                   ret, workerVars, envVars>>

\* "while (!IsCompleted(priority)) {}": the call goes on when the test succeeds.
\* A Complete that does not wait for the workers.
Complete_NoWait ==
    /\ mainPc = "cmp_wait"
    /\ mainPc' = "cmp_check"
    /\ UNCHANGED <<itemVars, listVars, flagVars, mutexVars, localVars, workerVars,
                   execCount, envVars>>

Complete_Wait ==
    /\ mainPc = "cmp_wait"
    /\ IsCompleted(arg)
    /\ mainPc' = "cmp_check"
    /\ UNCHANGED <<itemVars, listVars, flagVars, mutexVars, localVars, workerVars,
                   execCount, envVars>>

\* A barrier that never pauses.
Complete_CheckNeverPauses ==
    /\ mainPc = "cmp_check"
    /\ mainPc' = "cmp_purge"
    /\ UNCHANGED <<itemVars, listVars, flagVars, mutexVars, localVars, workerVars,
                   execCount, envVars>>

\* A barrier that pauses whatever the queue holds.
Complete_CheckAlwaysPauses ==
    /\ mainPc = "cmp_check"
    /\ mainPc' = "pause"
    /\ retPc' = "cmp_purge"
    /\ UNCHANGED <<itemVars, listVars, flagVars, mutexVars, arg, argList, curItem,
                   timer, ret, workerVars, execCount, envVars>>

\* "if (queue_.empty()) Pause()": read without the lock.
Complete_Check ==
    /\ mainPc = "cmp_check"
    /\ IF queue = <<>>
       THEN mainPc' = "pause" /\ retPc' = "cmp_purge"
       ELSE mainPc' = "cmp_purge" /\ UNCHANGED retPc
    /\ UNCHANGED <<itemVars, listVars, flagVars, mutexVars, arg, argList, curItem,
                   timer, ret, workerVars, execCount, envVars>>

\* No worker threads: one turn of the loop of the else branch.
\* A drain without workers that runs the front item whatever its priority.
Complete_NoThreadsAny ==
    /\ mainPc = "cmp_nt"
    /\ IF queue # <<>>
       THEN /\ curItem' = Head(queue)
            /\ queue' = Tail(queue)
            /\ mainPc' = "cmp_nt_run"
       ELSE /\ mainPc' = "cmp_purge"
            /\ UNCHANGED <<curItem, queue>>
    /\ UNCHANGED <<itemVars, workItems, poolItems, lastSize, flagVars, mutexVars, retPc,
                   arg, argList, timer, ret, workerVars, execCount, envVars>>

Complete_NoThreads ==
    /\ mainPc = "cmp_nt"
    /\ IF queue # <<>> /\ items[Head(queue)].priority >= arg
       THEN /\ curItem' = Head(queue)
            /\ queue' = Tail(queue)
            /\ mainPc' = "cmp_nt_run"
       ELSE /\ mainPc' = "cmp_purge"
            /\ UNCHANGED <<curItem, queue>>
    /\ UNCHANGED <<itemVars, workItems, poolItems, lastSize, flagVars, mutexVars, retPc,
                   arg, argList, timer, ret, workerVars, execCount, envVars>>

Complete_NoThreadsRun ==
    /\ mainPc = "cmp_nt_run"
    /\ execCount' = Invoke(curItem)
    /\ items' = MarkCompleted(curItem)
    /\ curItem' = Null
    /\ mainPc' = "cmp_nt"
    /\ UNCHANGED <<allocated, listVars, flagVars, mutexVars, retPc, arg, argList, timer,
                   ret, workerVars, envVars>>

\* "PurgeCompleted(priority); completing_ = false".
Complete_Purge ==
    /\ mainPc = "cmp_purge"
    /\ LET st == PurgeCompleted(arg)
       IN  /\ items' = ItemsAfterErase(workItems, st.kept, st.items)
           /\ allocated' = allocated \ Dropped(workItems, st.kept, st.items)
           /\ workItems' = st.kept
           /\ poolItems' = st.pool
           /\ execCount' = ExecOf(st.kept)
           /\ sentEvents' = st.sent
    /\ completing' = FALSE
    /\ mainPc' = "cmp_ret"
    /\ UNCHANGED <<queue, lastSize, threads, paused, pausing, shutDown,
                   mutexVars, retPc, arg, argList, curItem, timer, ret, workerVars,
                   frameOnly, pausedBy>>

\* Complete(priority) has returned to its caller.
Complete_Return ==
    /\ mainPc = "cmp_ret"
    /\ arg' = Null
    /\ mainPc' = "idle"
    /\ UNCHANGED <<itemVars, listVars, flagVars, mutexVars, retPc, argList, curItem,
                   timer, ret, workerVars, execCount, envVars>>

\* --------------------------------------------------------- HandleBeginFrame
\* A frame hook that runs its fallback loop whether or not workers exist.
HandleBeginFrame_CallAnyThreads ==
    /\ mainPc = "idle"
    /\ IF queue # <<>>
       THEN timer' = 0 /\ mainPc' = "hbf_loop"
       ELSE mainPc' = "hbf_purge" /\ UNCHANGED timer
    /\ UNCHANGED <<itemVars, listVars, flagVars, mutexVars, retPc, arg, argList, curItem,
                   ret, workerVars, execCount, envVars>>

\* The frame driver sends E_BEGINFRAME.  "HiresTimer timer" starts at zero.
HandleBeginFrame_Call ==
    /\ mainPc = "idle"
    /\ IF threads = 0 /\ queue # <<>>
       THEN timer' = 0 /\ mainPc' = "hbf_loop"
       ELSE mainPc' = "hbf_purge" /\ UNCHANGED timer
    /\ UNCHANGED <<itemVars, listVars, flagVars, mutexVars, retPc, arg, argList, curItem,
                   ret, workerVars, execCount, envVars>>

\* A loop whose budget is spent before its first test.
HandleBeginFrame_LoopNoBudget ==
    /\ mainPc = "hbf_loop"
    /\ mainPc' = "hbf_purge"
    /\ UNCHANGED <<itemVars, listVars, flagVars, mutexVars, localVars, workerVars,
                   execCount, envVars>>

\* "while (!queue_.empty() && timer.GetUSec(false) < maxNonThreadedWorkMs_ * 1000LL)".
HandleBeginFrame_Loop ==
    /\ mainPc = "hbf_loop"
    /\ IF queue # <<>> /\ timer < MaxNonThreadedWorkMs * 1000
       THEN /\ curItem' = Head(queue)
            /\ queue' = Tail(queue)
            /\ mainPc' = "hbf_run"
       ELSE /\ mainPc' = "hbf_purge"
            /\ UNCHANGED <<curItem, queue>>
    /\ UNCHANGED <<itemVars, workItems, poolItems, lastSize, flagVars, mutexVars, retPc,
                   arg, argList, timer, ret, workerVars, execCount, envVars>>

\* The entry point runs for usec microseconds, then "completed_ = true".
HandleBeginFrame_Run(usec) ==
    /\ mainPc = "hbf_run"
    /\ execCount' = Invoke(curItem)
    /\ items' = MarkCompleted(curItem)
    /\ curItem' = Null
    /\ timer' = timer + usec
    /\ mainPc' = "hbf_loop"
    /\ UNCHANGED <<allocated, listVars, flagVars, mutexVars, retPc, arg, argList, ret,
                   workerVars, envVars>>

\* "PurgeCompleted(0); PurgePool()".
HandleBeginFrame_Purge ==
    /\ mainPc = "hbf_purge"
    /\ LET st == PurgeCompleted(0)
       IN  /\ items' = ItemsAfterErase(workItems, st.kept, st.items)
           /\ allocated' = allocated \ Dropped(workItems, st.kept, st.items)
           /\ workItems' = st.kept
           /\ poolItems' = PurgePool(st.pool, lastSize)
           /\ lastSize' = Len(st.pool)
           /\ execCount' = ExecOf(st.kept)
           /\ sentEvents' = st.sent
    /\ timer' = 0
    /\ mainPc' = "idle"
    /\ UNCHANGED <<queue, flagVars, mutexVars, retPc, arg, argList, curItem,
                   ret, workerVars, frameOnly, pausedBy>>

\* ------------------------------------- PurgeCompleted, one entry at a time
\* PurgeCompleted runs on the main thread without the mutex while workers
\* may set completed_ on the items they hold.  Here the scan of workItems_ is
\* one step per entry: ret is the position of the iterator i and arg the
\* threshold (0 in HandleBeginFrame).
Complete_PurgeBegin ==
    /\ mainPc = "cmp_purge"
    /\ ret' = 1
    /\ mainPc' = "purge"
    /\ UNCHANGED <<itemVars, listVars, flagVars, mutexVars, retPc, arg, argList, curItem,
                   timer, workerVars, execCount, envVars>>

\* A frame hook that purges with Complete's usual threshold.
HandleBeginFrame_PurgeBeginHigh ==
    /\ mainPc = "hbf_purge"
    /\ ret' = 1
    /\ arg' = 3
    /\ mainPc' = "purge"
    /\ UNCHANGED <<itemVars, listVars, flagVars, mutexVars, retPc, argList, curItem,
                   timer, workerVars, execCount, envVars>>

HandleBeginFrame_PurgeBegin ==
    /\ mainPc = "hbf_purge"
    /\ ret' = 1
    /\ arg' = 0
    /\ mainPc' = "purge"
    /\ UNCHANGED <<itemVars, listVars, flagVars, mutexVars, retPc, argList, curItem,
                   timer, workerVars, execCount, envVars>>

\* One turn of the loop: "if ((*i)->completed_ && (*i)->priority_ >= priority)
\* { ...; ReturnToPool(*i); i = workItems_.erase(i); } else ++i".
PurgeCompleted_Step ==
    /\ mainPc = "purge"
    /\ ret <= Len(workItems)
    /\ LET it == workItems[ret]
       IN  IF Purgeable(items[it], arg)
           THEN LET sent == SendCompletionEvent(sentEvents, items, it)
                    r == ReturnToPool(items, poolItems, it)
                    live == Erase(workItems, ret)
                IN  /\ sentEvents' = sent
                    /\ items' = ItemsAfterErase(workItems, live, r.items)
                    /\ allocated' = allocated \ Dropped(workItems, live, r.items)
                    /\ workItems' = live
                    /\ poolItems' = r.pool
                    /\ execCount' = ExecOf(live)
                    /\ UNCHANGED ret
           ELSE /\ ret' = ret + 1
                /\ UNCHANGED <<itemVars, workItems, poolItems, execCount, sentEvents>>
    /\ UNCHANGED <<queue, lastSize, flagVars, mutexVars, mainPc, retPc, arg, argList,
                   curItem, timer, workerVars, frameOnly, pausedBy>>

\* The scan of Complete's PurgeCompleted has reached workItems_.end():
\* "completing_ = false".
Complete_PurgeEnd ==
    /\ mainPc = "purge"
    /\ completing
    /\ ret > Len(workItems)
    /\ completing' = FALSE
    /\ ret' = -1
    /\ mainPc' = "cmp_ret"
    /\ UNCHANGED <<itemVars, listVars, threads, paused, pausing, shutDown, mutexVars,
                   retPc, arg, argList, curItem, timer, workerVars, execCount, envVars>>

\* The scan of the frame hook's PurgeCompleted(0) has reached the end:
\* PurgePool() and return.
HandleBeginFrame_PurgeEnd ==
    /\ mainPc = "purge"
    /\ ~completing
    /\ ret > Len(workItems)
    /\ poolItems' = PurgePool(poolItems, lastSize)
    /\ lastSize' = Len(poolItems)
    /\ timer' = 0
    /\ ret' = -1
    /\ arg' = Null
    /\ mainPc' = "idle"
    /\ UNCHANGED <<itemVars, queue, workItems, flagVars, mutexVars, retPc, argList,
                   curItem, workerVars, execCount, envVars>>

\* -------------------------------------------------------------- IsCompleted
\* IsCompleted(priority) called by the application: the result is in ret
\* when the call returns.  The flags it reads only go from false to true
\* while it runs, so the scan is one step.
IsCompleted_Call(priority) ==
    /\ Calling
    /\ arg' = priority
    /\ ret' = IF IsCompleted(priority) THEN 1 ELSE 0
    /\ mainPc' = "isc_ret"
    /\ UNCHANGED <<itemVars, listVars, flagVars, mutexVars, retPc, argList, curItem,
                   timer, workerVars, execCount, envVars>>

IsCompleted_Return ==
    /\ mainPc = "isc_ret"
    /\ arg' = Null
    /\ ret' = -1
    /\ mainPc' = "idle"
    /\ UNCHANGED <<itemVars, listVars, flagVars, mutexVars, retPc, argList, curItem,
                   timer, workerVars, execCount, envVars>>

\* ------------------------------------------------ CreateThreads, destructor
\* A CreateThreads that starts the workers without calling Pause().
CreateThreads_CallNoPause(numThreads) ==
    /\ Calling
    /\ IF threads # 0
       THEN mainPc' = "ct_ret" /\ UNCHANGED <<retPc, arg>>
       ELSE mainPc' = "spawn" /\ retPc' = "spawn" /\ arg' = numThreads
    /\ UNCHANGED <<itemVars, listVars, flagVars, mutexVars, argList, curItem, timer, ret,
                   workerVars, execCount, envVars>>

\* A CreateThreads without the test of "threads.empty()".
CreateThreads_CallAgain(numThreads) ==
    /\ Calling
    /\ mainPc' = "pause" /\ retPc' = "spawn" /\ arg' = numThreads
    /\ UNCHANGED <<itemVars, listVars, flagVars, mutexVars, argList, curItem, timer, ret,
                   workerVars, execCount, envVars>>

\* CreateThreads(numThreads): returns at once when threads exist, else
\* Pause() and then the loop that starts the workers.
CreateThreads_Call(numThreads) ==
    /\ Calling
    /\ IF threads # 0
       THEN mainPc' = "ct_ret" /\ UNCHANGED <<retPc, arg>>
       ELSE mainPc' = "pause" /\ retPc' = "spawn" /\ arg' = numThreads
    /\ UNCHANGED <<itemVars, listVars, flagVars, mutexVars, argList, curItem, timer, ret,
                   workerVars, execCount, envVars>>

CreateThreads_Spawn ==
    /\ mainPc = "spawn"
    /\ threads' = arg
    /\ wPc' = [w \in 1..MaxThreads |-> IF w <= arg THEN "top" ELSE "none"]
    /\ arg' = Null
    /\ mainPc' = "ct_ret"
    /\ UNCHANGED <<itemVars, listVars, paused, pausing, shutDown, completing, mutexVars,
                   retPc, argList, curItem, timer, ret, wasActive, wItem, execCount,
                   envVars>>

\* CreateThreads has returned to its caller.
CreateThreads_Return ==
    /\ mainPc = "ct_ret"
    /\ mainPc' = "idle"
    /\ UNCHANGED <<itemVars, listVars, flagVars, mutexVars, localVars, workerVars,
                   execCount, envVars>>

\* A destructor that sets shutDown_ and stops the threads without Resume().
Destructor_CallNoResume ==
    /\ Calling
    /\ shutDown' = TRUE
    /\ mainPc' = "stop"
    /\ retPc' = "stop"
    /\ UNCHANGED <<itemVars, listVars, threads, paused, pausing, completing, mutexVars,
                   arg, argList, curItem, timer, ret, workerVars, execCount, envVars>>

\* ~WorkQueue: "shutDown_ = true; Resume()".
Destructor_Call ==
    /\ Calling
    /\ shutDown' = TRUE
    /\ mainPc' = "resume"
    /\ retPc' = "stop"
    /\ UNCHANGED <<itemVars, listVars, threads, paused, pausing, completing, mutexVars,
                   arg, argList, curItem, timer, ret, workerVars, execCount, envVars>>

\* ~WorkQueue: threads[i]->Stop() returns when the thread has left ThreadFunction.
Destructor_Stop ==
    /\ mainPc = "stop"
    /\ \A w \in Workers : wPc[w] = "stopped"
    /\ mainPc' = "destroyed"
    /\ UNCHANGED <<itemVars, listVars, flagVars, mutexVars, localVars, workerVars,
                   execCount, envVars>>

\* ------------------------------------------------------------ ProcessItems
\* A loop whose idle worker yields as long as paused_ is set.
ProcessItems_TopPaused(w) ==
    /\ wPc[w] = "top"
    /\ wPc' = [wPc EXCEPT ![w] = IF shutDown THEN "stopped"
                                  ELSE IF (pausing \/ paused) /\ ~wasActive[w] THEN "top"
                                  ELSE "lock"]
    /\ UNCHANGED <<itemVars, listVars, flagVars, mutexVars, mainPc, localVars, wasActive,
                   wItem, execCount, envVars>>

\* Top of the loop: shutDown_, then "pausing_ && !wasActive" (Sleep(0)).
ProcessItems_Top(w) ==
    /\ wPc[w] = "top"
    /\ wPc' = [wPc EXCEPT ![w] = IF shutDown THEN "stopped"
                                  ELSE IF pausing /\ ~wasActive[w] THEN "top"
                                  ELSE "lock"]
    /\ UNCHANGED <<itemVars, listVars, flagVars, mutexVars, mainPc, localVars, wasActive,
                   wItem, execCount, envVars>>

\* A critical section that reads the front entry and leaves it in the queue.
ProcessItems_Peek(w) ==
    /\ wPc[w] = "lock"
    /\ queueMutex = {}
    /\ IF queue # <<>>
       THEN /\ wasActive' = [wasActive EXCEPT ![w] = TRUE]
            /\ wItem' = [wItem EXCEPT ![w] = Head(queue)]
            /\ wPc' = [wPc EXCEPT ![w] = "run"]
       ELSE /\ wasActive' = [wasActive EXCEPT ![w] = FALSE]
            /\ wPc' = [wPc EXCEPT ![w] = "top"]
            /\ UNCHANGED wItem
    /\ UNCHANGED <<itemVars, listVars, flagVars, mutexVars, mainPc, localVars, execCount,
                   envVars>>

\* A critical section entered without taking the mutex.
ProcessItems_PopUnlocked(w) ==
    /\ wPc[w] = "lock"
    /\ IF queue # <<>>
       THEN /\ wasActive' = [wasActive EXCEPT ![w] = TRUE]
            /\ wItem' = [wItem EXCEPT ![w] = Head(queue)]
            /\ queue' = Tail(queue)
            /\ wPc' = [wPc EXCEPT ![w] = "run"]
       ELSE /\ wasActive' = [wasActive EXCEPT ![w] = FALSE]
            /\ wPc' = [wPc EXCEPT ![w] = "top"]
            /\ UNCHANGED <<wItem, queue>>
    /\ UNCHANGED <<itemVars, workItems, poolItems, lastSize, flagVars, mutexVars, mainPc,
                   localVars, execCount, envVars>>

\* "queueMutex_.lock(); ...; queueMutex_.unlock()": the critical section of
\* the loop, entered when the mutex is free.  It pops the front of the
\* queue, or finds the queue empty and goes back to the top after Sleep(0).
\* Nothing another thread does under the mutex can fall inside it, and the
\* reads of queue_ that the main thread makes without the mutex see the
\* queue either before or after the pop, so it is one step.
ProcessItems_Pop(w) ==
    /\ wPc[w] = "lock"
    /\ queueMutex = {}
    /\ IF queue # <<>>
       THEN /\ wasActive' = [wasActive EXCEPT ![w] = TRUE]
            /\ wItem' = [wItem EXCEPT ![w] = Head(queue)]
            /\ queue' = Tail(queue)
            /\ wPc' = [wPc EXCEPT ![w] = "run"]
       ELSE /\ wasActive' = [wasActive EXCEPT ![w] = FALSE]
            /\ wPc' = [wPc EXCEPT ![w] = "top"]
            /\ UNCHANGED <<wItem, queue>>
    /\ UNCHANGED <<itemVars, workItems, poolItems, lastSize, flagVars, mutexVars, mainPc,
                   localVars, execCount, envVars>>

\* A worker that takes its finished item out of the live list itself.
ProcessItems_RunAndErase(w) ==
    /\ wPc[w] = "run"
    /\ execCount' = Invoke(wItem[w])
    /\ items' = MarkCompleted(wItem[w])
    /\ workItems' = SelectSeq(workItems, LAMBDA i : i # wItem[w])
    /\ wItem' = [wItem EXCEPT ![w] = Null]
    /\ wPc' = [wPc EXCEPT ![w] = "top"]
    /\ UNCHANGED <<allocated, queue, poolItems, lastSize, flagVars, mutexVars, mainPc,
                   localVars, wasActive, envVars>>

\* A worker that runs the entry point and does not set completed_.
ProcessItems_RunNoFlag(w) ==
    /\ wPc[w] = "run"
    /\ execCount' = Invoke(wItem[w])
    /\ wItem' = [wItem EXCEPT ![w] = Null]
    /\ wPc' = [wPc EXCEPT ![w] = "top"]
    /\ UNCHANGED <<itemVars, listVars, flagVars, mutexVars, mainPc, localVars, wasActive,
                   envVars>>

\* "item->workFunction_(item, threadIndex); item->completed_ = true": the
\* entry point runs while the worker is at "run" and the flag is set when it
\* has returned.
ProcessItems_Run(w) ==
    /\ wPc[w] = "run"
    /\ execCount' = Invoke(wItem[w])
    /\ items' = MarkCompleted(wItem[w])
    /\ wItem' = [wItem EXCEPT ![w] = Null]
    /\ wPc' = [wPc EXCEPT ![w] = "top"]
    /\ UNCHANGED <<allocated, listVars, flagVars, mutexVars, mainPc, localVars, wasActive,
                   envVars>>

\* ------------------------------------------------------------- application
\* From here on the application only lets its frame driver send E_BEGINFRAME.
FrameLoopOnly ==
    /\ Calling
    /\ frameOnly' = TRUE
    /\ UNCHANGED <<itemVars, listVars, flagVars, mutexVars, mainPc, localVars,
                   workerVars, execCount, pausedBy, sentEvents>>

\* Lists handed to RemoveWorkItems.
MaxListLen == 2
RemoveLists == UNION {[1..n -> allocated \cup {Null}] : n \in 0..MaxListLen}

\* ---------------------------------------------------------- specifications
\* Steps of the main thread inside AddWorkItem, Complete and the frame hook
\* that every configuration takes.
CommonStep ==
    \/ AddWorkItem_Lock \/ AddWorkItem_Insert
    \/ Complete_Purge \/ Complete_Return
    \/ HandleBeginFrame_Purge

\* Steps inside Pause and Resume.
PauseStep ==
    \/ Pause_Begin \/ Pause_Lock \/ Pause_Set \/ Resume_Begin \/ Resume_Flag

\* Steps only taken while worker threads exist.
ThreadedStep ==
    \/ AddWorkItem_Unlock \/ AddWorkItem_Unpause
    \/ Complete_Loop \/ Complete_Lock \/ Complete_Pop \/ Complete_Run
    \/ Complete_Wait \/ Complete_Check
    \/ CreateThreads_Spawn \/ CreateThreads_Return

\* Steps only taken while no worker thread exists.
UnthreadedStep ==
    \/ Complete_NoThreads \/ Complete_NoThreadsRun
    \/ HandleBeginFrame_Loop \/ (\E usec \in WorkUSec : HandleBeginFrame_Run(usec))

RemoveStep ==
    \/ RemoveWorkItem_Lock \/ RemoveWorkItem_Body
    \/ Remove_Return

RemoveListStep ==
    \/ RemoveWorkItems_Lock \/ RemoveWorkItems_Relock \/ RemoveWorkItems_Body

WorkerStep(w) ==
    \/ ProcessItems_Top(w) \/ ProcessItems_Pop(w)
    \/ ProcessItems_Run(w)

\* The scheduler as an application with up to AppThreads workers uses it.
MainStep ==
    \/ CommonStep \/ PauseStep \/ ThreadedStep \/ UnthreadedStep
    \/ RemoveStep \/ RemoveWorkItem_Relock \/ AddWorkItem_NullReturn

MainCall ==
    \/ GetFreeItem(NumItems) \/ NewWorkItem(NumItems) \/ AddWorkItem_Null
    \/ (\E it \in Items, p \in Priorities : AddWorkItem_Begin(it, p, FALSE))
    \/ (\E it \in {Null} \cup allocated : RemoveWorkItem_Call(it))
    \/ Pause_Call \/ Resume_Call
    \/ (\E priority \in Thresholds : Complete_Call(priority))
    \/ (\E numThreads \in 0..AppThreads : CreateThreads_Call(numThreads))

Next ==
    \/ MainCall
    \/ HandleBeginFrame_Call
    \/ MainStep
    \/ \E w \in 1..AppThreads : WorkerStep(w)

Spec == Init /\ [][Next]_vars

\* The same application in its smallest configuration: one WorkItem
\* instance and at most one worker.
UnitItems == 1
UnitThreads == 1

MainCallUnit ==
    \/ GetFreeItem(UnitItems) \/ NewWorkItem(UnitItems) \/ AddWorkItem_Null
    \/ (\E it \in Items, p \in Priorities : AddWorkItem_Begin(it, p, FALSE))
    \/ (\E it \in {Null} \cup allocated : RemoveWorkItem_Call(it))
    \/ Pause_Call \/ Resume_Call
    \/ (\E priority \in Thresholds : Complete_Call(priority))
    \/ (\E numThreads \in 0..UnitThreads : CreateThreads_Call(numThreads))

NextUnit ==
    \/ MainCallUnit
    \/ HandleBeginFrame_Call
    \/ MainStep
    \/ \E w \in 1..UnitThreads : WorkerStep(w)

SpecUnit == Init /\ [][NextUnit]_vars

\* The scheduler without worker threads: every operation runs on the main
\* thread, with more items and priorities than the threaded configuration.
MainStepSeq == CommonStep \/ UnthreadedStep \/ RemoveStep \/ AddWorkItem_NullReturn

MainCallSeq ==
    \/ GetFreeItem(SeqItems) \/ AddWorkItem_Null
    \/ (\E it \in Items, p \in SeqPriorities : AddWorkItem_Begin(it, p, FALSE))
    \/ (\E it \in {Null} \cup allocated : RemoveWorkItem_Call(it))
    \/ (\E priority \in Thresholds : Complete_Call(priority))

NextSeq ==
    \/ MainCallSeq
    \/ HandleBeginFrame_Call
    \/ MainStepSeq

SpecSeq == Init /\ [][NextSeq]_vars

\* The fallback of an application without worker threads that submits items
\* and then only runs its frame loop.  The frame driver keeps sending
\* E_BEGINFRAME and the main thread goes on inside the handler.
MainStepFrame == CommonStep \/ UnthreadedStep

MainCallFrame ==
    \/ GetFreeItem(FrameItems)
    \/ (\E it \in Items, p \in Priorities : AddWorkItem_Begin(it, p, FALSE))
    \/ (\E priority \in Thresholds : Complete_Call(priority))
    \/ FrameLoopOnly

NextFrame ==
    \/ MainCallFrame
    \/ HandleBeginFrame_Call
    \/ MainStepFrame

SpecFrame ==
    /\ Init
    /\ [][NextFrame]_vars
    /\ WF_vars(MainStepFrame)
    /\ WF_vars(HandleBeginFrame_Call)

\* The scheduler of an application that creates its workers first.  The
\* main thread goes on inside an operation it has started, a worker that can
\* take a step takes one, and a worker waiting for the mutex gets it when
\* the mutex is released again and again.
MainStepFair == CommonStep \/ PauseStep \/ ThreadedStep

MainCallFair ==
    \/ (\E numThreads \in 1..FairThreads : CreateThreads_Call(numThreads))
    \/ /\ threads > 0
       /\ \/ GetFreeItem(NumItems)
          \/ (\E it \in Items, p \in Priorities : AddWorkItem_Begin(it, p, FALSE))
          \/ Pause_Call \/ Resume_Call
          \/ (\E priority \in Thresholds : Complete_Call(priority))
          \/ FrameLoopOnly

NextFair ==
    \/ MainCallFair
    \/ threads > 0 /\ HandleBeginFrame_Call
    \/ MainStepFair
    \/ \E w \in 1..FairThreads : WorkerStep(w)

SpecFair ==
    /\ Init
    /\ [][NextFair]_vars
    /\ WF_vars(MainStepFair)
    /\ WF_vars(HandleBeginFrame_Call)
    /\ \A w \in 1..FairThreads :
          /\ WF_vars(ProcessItems_Top(w))
          /\ SF_vars(ProcessItems_Pop(w))
          /\ WF_vars(ProcessItems_Run(w))

\* The scheduler with at most PurgeThreads workers and the scan of
\* PurgeCompleted taken one entry at a time, for an application that also
\* asks IsCompleted, sets sendEvent_ and resubmits recycled items with the
\* priority they come back with.
PurgeThreads == 1

MainStepPurge ==
    \/ AddWorkItem_Lock \/ AddWorkItem_Insert \/ Complete_Return
    \/ Complete_PurgeBegin \/ HandleBeginFrame_PurgeBegin
    \/ PurgeCompleted_Step
    \/ Complete_PurgeEnd \/ HandleBeginFrame_PurgeEnd
    \/ IsCompleted_Return
    \/ PauseStep \/ ThreadedStep \/ UnthreadedStep
    \/ RemoveStep \/ RemoveWorkItem_Relock

MainCallPurge ==
    \/ GetFreeItem(NumItems) \/ NewWorkItem(NumItems)
    \/ (\E it \in Items, p \in Priorities, ev \in BOOLEAN : AddWorkItem_Begin(it, p, ev))
    \/ (\E it \in Held : /\ items[it].priority = M_MAX_UNSIGNED
                          /\ AddWorkItem_Begin(it, items[it].priority, FALSE))
    \/ (\E it \in allocated : RemoveWorkItem_Call(it))
    \/ (\E priority \in Thresholds : Complete_Call(priority))
    \/ (\E priority \in Thresholds : IsCompleted_Call(priority))
    \/ (\E numThreads \in 0..PurgeThreads : CreateThreads_Call(numThreads))

NextPurge ==
    \/ MainCallPurge
    \/ HandleBeginFrame_Call
    \/ MainStepPurge
    \/ \E w \in 1..PurgeThreads : WorkerStep(w)

SpecPurge == Init /\ [][NextPurge]_vars

\* The scheduler with at most RemoveThreads workers for an application that
\* cancels lists of items; the loop of RemoveWorkItems is taken one entry at
\* a time so that the workers' steps fall between its turns.
RemoveThreads == 1

MainStepRemove ==
    \/ AddWorkItem_Lock \/ AddWorkItem_Insert
    \/ AddWorkItem_Unlock \/ AddWorkItem_Unpause
    \/ PauseStep
    \/ CreateThreads_Spawn \/ CreateThreads_Return
    \/ HandleBeginFrame_Loop \/ (\E usec \in WorkUSec : HandleBeginFrame_Run(usec))
    \/ HandleBeginFrame_Purge
    \/ RemoveWorkItems_Lock \/ RemoveWorkItems_Relock
    \/ RemoveWorkItems_Iter \/ RemoveWorkItems_Done
    \/ Remove_Return

MainCallRemove ==
    \/ GetFreeItem(NumItems) \/ NewWorkItem(NumItems)
    \/ (\E it \in Items, p \in Priorities : AddWorkItem_Begin(it, p, FALSE))
    \/ (\E list \in RemoveLists : RemoveWorkItems_Call(list))
    \/ Pause_Call \/ Resume_Call
    \/ (\E numThreads \in 0..RemoveThreads : CreateThreads_Call(numThreads))

NextRemove ==
    \/ MainCallRemove
    \/ HandleBeginFrame_Call
    \/ MainStepRemove
    \/ \E w \in 1..RemoveThreads : WorkerStep(w)

SpecRemove == Init /\ [][NextRemove]_vars

\* ------------------------------------------------------------------ claims
\* C1: when Complete(priority) returns, every live item whose priority is at
\* least the threshold has its completed flag set, so IsCompleted(priority)
\* is true, with worker threads and without.
CompleteIsBarrier ==
    mainPc = "cmp_ret" =>
        \A i \in Range(workItems) : items[i].priority >= arg => items[i].completed

\* Complete(3) has returned with workers running while an item below the
\* threshold is still pending.
CompleteReturnedWithWorkers ==
    /\ mainPc = "cmp_ret"
    /\ threads > 0
    /\ arg = 3
    /\ \E i \in Range(workItems) : items[i].priority < arg /\ ~items[i].completed

\* C2: under every interleaving of the workers, Complete and the frame hook,
\* the entry point of an item is invoked at most once per submission.
AtMostOncePerSubmission == \A i \in Items : execCount[i] <= 1

\* The main thread, inside Complete, has executed one item while a worker
\* is executing the other one.
MainAndWorkerExecute ==
    /\ mainPc = "cmp_loop"
    /\ \E w \in Workers, i \in Items :
          /\ wPc[w] = "run" /\ wItem[w] # i
          /\ execCount[i] = 1 /\ items[i].completed

\* The queue is in non-increasing priority order.
Sorted(q) ==
    \A a, b \in 1..Len(q) : a < b => items[q[a]].priority >= items[q[b]].priority

\* This step takes item `it` out of the queue to execute it.
DequeuesItem(it) ==
    /\ it \in Range(queue)
    /\ it \notin Range(queue')
    /\ \/ curItem # it /\ curItem' = it
       \/ \E w \in 1..MaxThreads : wItem[w] # it /\ wItem'[w] = it

\* C4: the queue is always sorted in non-increasing priority order, and
\* every dequeue (by a worker, by Complete, by the frame hook) takes an item
\* whose priority is the maximum of the priorities in the queue.
QueueSortedDequeueMax ==
    /\ []Sorted(queue)
    /\ [][\A it \in Items : DequeuesItem(it) =>
              \A j \in Range(queue) : items[it].priority >= items[j].priority]_vars

\* With workers present, an item submitted later with a higher priority
\* stands in front of an earlier one with a lower priority.
HigherPriorityAhead ==
    /\ threads > 0
    /\ Len(queue) = 2
    /\ items[queue[1]].priority > items[queue[2]].priority
    /\ workItems = <<queue[2], queue[1]>>

\* Live item a was submitted before live item b: AddWorkItem appends to the
\* live list and nothing reorders it.
SubmittedBefore(a, b) == IndexOf(workItems, a) < IndexOf(workItems, b)

\* Four items submitted with priorities 5, 1, 5, 3 and all still queued.
Submitted5153 ==
    /\ Len(workItems) = 4
    /\ Len(queue) = 4
    /\ [k \in 1..4 |-> items[workItems[k]].priority] = <<5, 1, 5, 3>>

WorkerDequeues ==
    \E w \in 1..MaxThreads, it \in Items :
        it \in Range(queue) /\ it \notin Range(queue') /\ wItem[w] # it /\ wItem'[w] = it

\* C6 as stated: in every state where the paused flag is true, no worker
\* dequeue step is taken.
NoDequeueWhilePausedFlag == [][paused => ~WorkerDequeues]_vars

\* Resume and AddWorkItem release the mutex first and clear paused_ next: the
\* main thread stands between the two.
Unpausing == mainPc \in {"resume_flag", "add_unpause"}

\* C6: from the moment Pause() returns until the un-pausing operation
\* (Resume, AddWorkItem with workers, Complete through Resume) releases the
\* queue mutex, no worker takes an item out of the queue: no worker dequeue
\* step is taken in a state where the paused flag is true and the main thread
\* is not between the unlock and the clearing of the flag.
NoDequeueWhilePauseHeld == [][paused /\ ~Unpausing => ~WorkerDequeues]_vars

\* Paused by Pause() with items queued and a worker waiting for the mutex.
PausedWithWorkWaiting ==
    /\ paused /\ ~Unpausing /\ mainPc = "idle"
    /\ threads > 0
    /\ queue # <<>>
    /\ \E w \in Workers : wPc[w] = "lock"

\* The fields of a pooled item as ReturnToPool leaves them.
FieldsReset(rec) ==
    /\ ~rec.start /\ ~rec.end /\ ~rec.aux /\ ~rec.workFunction
    /\ rec.priority = M_MAX_UNSIGNED
    /\ ~rec.sendEvent /\ ~rec.completed

\* C9: RemoveWorkItem returns true exactly when the item is in the queue at
\* the moment the call holds the lock; after a true return the item is in
\* neither the queue nor the live list and, if it is pooled, it is in the
\* free list with its fields reset.
RemoveWorkItemTakesQueued ==
    [][mainPc = "rm_body" /\ mainPc' = "rm_ret" =>
          /\ ret' \in {0, 1}
          /\ ret' = 1 <=> arg \in Range(queue)
          /\ ret' = 1 =>
                /\ arg \notin Range(queue')
                /\ arg \notin Range(workItems')
                /\ items[arg].pooled =>
                      arg \in Range(poolItems') /\ FieldsReset(items'[arg])]_vars

\* RemoveWorkItem has returned true for a pooled item while workers exist.
RemovedPooledItem ==
    /\ mainPc = "rm_ret"
    /\ ret = 1
    /\ threads > 0
    /\ arg \in Range(poolItems)
    /\ FieldsReset(items[arg])

\* C10: RemoveWorkItem called with a null item, with an item that was never
\* submitted or with one that a worker, Complete or the frame hook has
\* already taken returns false and leaves the queue, the live list, the free
\* list, the pause state and the fields of every item as they were.
RemoveWorkItemRefuses ==
    [][\/ mainPc = "idle" /\ mainPc' = "rm_ret"
       \/ mainPc = "rm_body" /\ mainPc' = "rm_ret" /\ arg \notin Range(queue)
       => /\ ret' = 0
          /\ UNCHANGED <<queue, workItems, poolItems, items, paused, pausing>>
          /\ paused => queueMutex' = {Main}]_vars

\* RemoveWorkItem has returned false for an item a worker is executing.
RefusedClaimedItem ==
    /\ mainPc = "rm_ret"
    /\ ret = 0
    /\ \E w \in Workers : wPc[w] = "run" /\ wItem[w] = arg

\* This step is a call of AddWorkItem returning to the application.
AddWorkItemReturns ==
    mainPc \in {"add_lock", "add_insert", "add_unlock", "add_unpause"} /\ mainPc' = "idle"

\* Nothing is left to execute: the queue is empty and every live item has
\* its completed flag set.
AllCompleted == queue = <<>> /\ \A i \in Range(workItems) : items[i].completed

\* C5 as stated: with workers created and the scheduler paused, no submitted
\* item is executed for as long as Resume() has not been called, and after
\* Resume() all items are eventually completed.
NothingRunsBeforeResume ==
    /\ [][threads > 0 /\ pausedBy # "none" => ~WorkerDequeues]_vars
    /\ (threads > 0 /\ pausedBy = "none" /\ ~paused) ~> AllCompleted

\* C5: with workers created and the scheduler paused, AddWorkItem itself
\* un-pauses the scheduler (it releases the queue mutex and clears paused_),
\* so the submitted items can be executed before Resume() is called.  Once
\* the scheduler is un-paused and the application submits nothing more, all
\* submitted items are eventually completed.
AddWorkItemUnpauses ==
    /\ [][threads > 0 /\ AddWorkItemReturns => ~paused' /\ queueMutex' = {}]_vars
    /\ (frameOnly /\ threads > 0 /\ ~paused) ~> AllCompleted

\* A worker executes an item that was submitted while the scheduler was
\* paused, and Resume() has not been called.
RunsBeforeResume ==
    /\ pausedBy # "none"
    /\ ~paused
    /\ \E w \in Workers : wPc[w] = "run" /\ wItem[w] # Null

\* C7: with no worker thread, once the application submits nothing more and
\* the frame hook keeps being invoked, the queue is eventually drained; an
\* item leaves the queue only into the hands of the main thread, which runs
\* its entry point once and sets its completed flag; and every call returns,
\* the frame hook's included.
FallbackDrains ==
    /\ (frameOnly /\ threads = 0) ~> (queue = <<>>)
    /\ []<>(mainPc = "idle")
    /\ [][frameOnly /\ threads = 0 =>
              \A i \in Items :
                  /\ i \in Range(queue) /\ i \notin Range(queue') => curItem' = i
                  /\ curItem = i /\ curItem' # i =>
                        items'[i].completed /\ execCount'[i] = 1]_vars

\* A frame hook has used up its budget and leaves an item for the next one.
BudgetSpentWorkLeft ==
    /\ frameOnly
    /\ threads = 0
    /\ mainPc = "hbf_purge"
    /\ timer >= MaxNonThreadedWorkMs * 1000
    /\ queue # <<>>

\* Item i needs no more service: it is completed or no longer live.
Served(i) == i \notin Range(workItems) \/ items[i].completed

\* The scheduler is held paused by a Pause() call of the application.
PausedByCaller == paused /\ pausedBy = "Pause"

NullSubmissionStep ==
    LET inAdd == {"add_null", "add_lock", "add_insert", "add_unlock", "add_unpause"}
    IN  /\ arg = Null /\ arg' = Null
        /\ mainPc' # mainPc
        /\ mainPc \in inAdd \/ mainPc' \in inAdd

\* C20: AddWorkItem with a null item fails without inserting: no step the
\* caller takes in it changes the queue, the live list, the free list, the
\* paused flag, the ownership of the mutex or the fields of any item.
NullSubmissionChangesNothing ==
    [][NullSubmissionStep =>
          UNCHANGED <<queue, workItems, poolItems, paused, queueMutex, items>>]_vars

\* A null item has been submitted to a paused scheduler with workers and a
\* queued item.
NullSubmittedWhilePaused ==
    /\ mainPc = "add_null"
    /\ threads > 0
    /\ paused /\ queueMutex = {Main}
    /\ queue # <<>>

\* Item i has been dequeued by the Complete drain, by the fallback or by a
\* worker, and its entry point has not returned yet.
InHand(i) == curItem = i \/ \E w \in 1..MaxThreads : wItem[w] = i

\* C11: cancellation only happens before dequeue.  An entry point is invoked
\* only for an item that a thread has dequeued and that is in the live list;
\* a thread gets an item only as the front of the queue; when
\* RemoveWorkItem(item) returns true the item is in no queue, in no thread's
\* hand and not in the live list, with no invocation of that submission; and
\* a dequeued item stays live with its fields untouched until its entry
\* point has run once and it is marked completed, whatever RemoveWorkItem does.
CancellationOnlyBeforeDequeue ==
    [][/\ \A i \in Items :
            /\ execCount'[i] > execCount[i] => InHand(i) /\ i \in Range(workItems)
            /\ InHand(i)' /\ ~InHand(i) =>
                  queue # <<>> /\ i = Head(queue) /\ queue' = Tail(queue)
            /\ InHand(i) =>
                  /\ i \in Range(workItems')
                  /\ \/ InHand(i)' /\ items'[i] = items[i] /\ execCount'[i] = 0
                     \/ /\ ~InHand(i)'
                        /\ execCount'[i] = 1
                        /\ items'[i] = [items[i] EXCEPT !.completed = TRUE]
       /\ mainPc' = "rm_ret" /\ arg' # Null /\ ret' = 1 =>
            \A i \in Items : i = arg' =>
                /\ i \notin Range(queue') \cup Range(workItems')
                /\ ~InHand(i)'
                /\ execCount'[i] = 0]_vars

\* RemoveWorkItem has returned true for one item while a worker holds
\* another item that it has dequeued and not yet run.
RemovedWhileAnotherInFlight ==
    /\ mainPc = "rm_ret" /\ arg # Null /\ ret = 1
    /\ \E w \in Workers : wItem[w] # Null /\ wItem[w] # arg /\ wPc[w] = "run"

\* The application calls CreateThreads.
CreateThreadsCalled ==
    /\ mainPc = "idle"
    /\ mainPc' = "ct_ret" \/ (mainPc' = "pause" /\ retPc' = "spawn")

\* C17: CreateThreads is idempotent.  The number of workers never changes
\* once it is positive (CreateThreads(n) twice leaves n workers), and a call
\* made when workers exist returns at once and changes neither the number of
\* workers, the paused and pausing flags, the ownership of the mutex, the
\* queue, the live list, the free list nor any worker's position.
CreateThreadsIdempotent ==
    [][/\ threads > 0 => threads' = threads
       /\ CreateThreadsCalled /\ threads > 0 =>
            /\ mainPc' = "ct_ret"
            /\ UNCHANGED <<threads, paused, pausing, queueMutex, relocked, queue,
                           workItems, poolItems, items, wPc, wItem>>
       /\ mainPc = "ct_ret" /\ mainPc' = "idle" =>
            UNCHANGED <<threads, paused, pausing, queueMutex, relocked, queue,
                        workItems, poolItems, items, wPc, wItem>>]_vars

\* A second CreateThreads has returned with the workers of the first one
\* running, un-paused, and an item queued.
CreateThreadsCalledTwice ==
    /\ mainPc = "ct_ret"
    /\ threads > 0
    /\ ~paused /\ queueMutex = {}
    /\ queue # <<>>

\* C18: CreateThreads pauses the scheduler before it starts any worker.  When
\* the loop that starts the workers is reached, and when the call returns
\* from it, the scheduler is paused with the mutex held by the main thread,
\* the queue is what it was and no worker has an item; and as long as it
\* stays paused, up to the unlock by which AddWorkItem or Resume (called
\* directly or by Complete) un-pauses it, no worker dequeues an item.
CreateThreadsStartsPaused ==
    [][/\ mainPc = "spawn" => threads = 0 /\ paused /\ ~pausing /\ queueMutex = {Main}
       /\ mainPc = "spawn" /\ mainPc' = "ct_ret" =>
            /\ paused' /\ queueMutex' = {Main}
            /\ queue' = queue
            /\ \A w \in 1..MaxThreads : wItem'[w] = Null
       /\ threads > 0 /\ paused /\ pausedBy \in {"CreateThreads", "Pause"} /\ ~Unpausing =>
            ~WorkerDequeues]_vars

\* CreateThreads has returned from starting workers with an item queued
\* beforehand, and a worker is waiting for the mutex.
WorkersCreatedWithWorkQueued ==
    /\ mainPc = "ct_ret"
    /\ threads > 0 /\ paused /\ pausedBy = "CreateThreads"
    /\ queue # <<>>
    /\ \E w \in Workers : wPc[w] = "lock"

\* C19: when worker threads exist, AddWorkItem inserts the item into the
\* queue while the calling thread holds the queue mutex, and when it returns
\* the scheduler is not paused and the calling thread does not hold the
\* mutex, whether the scheduler was paused or running at the call.
AddWorkItemInsertsUnderLock ==
    [][/\ threads > 0 /\ mainPc = "add_insert" /\ mainPc' # mainPc =>
            /\ queueMutex = {Main} /\ queueMutex' = {Main}
            /\ arg \notin Range(queue) /\ arg \in Range(queue')
       /\ threads > 0 /\ mainPc = "add_unpause" /\ mainPc' = "idle" =>
            ~paused' /\ Main \notin queueMutex' /\ ~relocked']_vars

\* AddWorkItem called on a running scheduler has taken the mutex for the
\* insertion and a worker waits for it.
InsertingWhileWorkersRun ==
    /\ mainPc = "add_insert"
    /\ threads > 0 /\ ~paused
    /\ queueMutex = {Main}
    /\ \E w \in Workers : wPc[w] = "lock"

\* AddWorkItem called on a paused scheduler is about to insert under the
\* mutex that the pause holds.
InsertingWhilePaused ==
    /\ mainPc = "add_insert"
    /\ threads > 0 /\ paused
    /\ queueMutex = {Main}

\* The main thread examines one entry of the live list in PurgeCompleted.
PurgeExamines ==
    /\ mainPc = "purge" /\ mainPc' = "purge"
    /\ ret' # ret \/ workItems' # workItems

\* C14: PurgeCompleted(p) removes from the live list exactly the items that
\* are completed with priority >= p.  Each turn of its loop erases the entry
\* it examines when that entry has completed_ set and priority_ >= p (a
\* pooled one going to the back of the free list) and otherwise leaves it;
\* it keeps the other entries in their order, changes no field of an item
\* that stays live, and does not touch the queue.  When the loop ends on a
\* scheduler without workers, or inside Complete, no live item is completed
\* with priority >= p.
PurgeCompletedExact ==
    [][/\ PurgeExamines =>
            LET it == workItems[ret]
            IN  /\ queue' = queue
                /\ IF items[it].completed /\ items[it].priority >= arg
                   THEN /\ workItems' = Erase(workItems, ret)
                        /\ ret' = ret
                        /\ poolItems' = IF items[it].pooled THEN Append(poolItems, it)
                                        ELSE poolItems
                   ELSE /\ workItems' = workItems
                        /\ ret' = ret + 1
                        /\ poolItems' = poolItems
                /\ \A j \in Range(workItems') : items'[j] = items[j]
       /\ mainPc = "purge" /\ mainPc' # "purge" /\ (threads = 0 \/ completing) =>
            \A j \in Range(workItems) :
                ~(items[j].completed /\ items[j].priority >= arg)]_vars

\* The scan of PurgeCompleted(3) has passed a completed item of priority 1,
\* which stays live, and has purged one item.
PurgeSkippedLowPriority ==
    /\ mainPc = "purge" /\ arg = 3 /\ ret = 2
    /\ Len(workItems) = 1
    /\ items[workItems[1]].completed /\ items[workItems[1]].priority = 1
    /\ Len(poolItems) = 1

\* C13: IsCompleted(p) returns true if and only if the live list contains no
\* item with priority >= p whose completed flag is false, and the call
\* changes nothing of the scheduler: items, queue, live list, free list,
\* flags, mutex and workers are as they were.
IsCompletedExact ==
    [][/\ mainPc = "idle" /\ mainPc' = "isc_ret" =>
            /\ ret' \in {0, 1}
            /\ ret' = 1 <=>
                  ~\E j \in Range(workItems) :
                        items[j].priority >= arg' /\ ~items[j].completed
            /\ UNCHANGED <<itemVars, listVars, flagVars, mutexVars, workerVars>>
       /\ mainPc = "isc_ret" /\ mainPc' = "idle" =>
            UNCHANGED <<itemVars, listVars, flagVars, mutexVars, workerVars>>]_vars

\* IsCompleted(3) has returned true with a completed item of priority 3 and
\* an item of priority 1 that is not completed in the live list.
IsCompletedIgnoresLower ==
    /\ mainPc = "isc_ret" /\ arg = 3 /\ ret = 1
    /\ \E j \in Range(workItems) : items[j].priority = 3 /\ items[j].completed
    /\ \E j \in Range(workItems) : items[j].priority = 1 /\ ~items[j].completed

\* IsCompleted has returned false with the queue empty: the item that is
\* not completed is in a worker's hand.
IsCompletedSeesInFlight ==
    /\ mainPc = "isc_ret" /\ ret = 0
    /\ queue = <<>>
    /\ \E w \in Workers : wItem[w] # Null

\* Nothing of a submission is left in the record: entry point, the three
\* context fields, sendEvent_ and completed_ are cleared.
PayloadCleared(rec) ==
    /\ ~rec.workFunction
    /\ ~rec.start /\ ~rec.end /\ ~rec.aux
    /\ ~rec.sendEvent /\ ~rec.completed

\* GetFreeItem takes the front of a free list that is not empty.
GetFreeItemRecycles ==
    /\ mainPc = "idle" /\ mainPc' = "idle"
    /\ poolItems # <<>> /\ poolItems' = Tail(poolItems)

\* C15: pool round trip.  Every item in the free list is a pooled instance
\* that is neither live nor queued and has its entry point, its three context
\* fields, sendEvent_ and completed_ cleared, however it got there (executed
\* and purged, or cancelled by RemoveWorkItem); and GetFreeItem hands out the
\* front instance of the free list with exactly those cleared values.
PoolRoundTrip ==
    [][/\ \A i \in Range(poolItems') :
            /\ items'[i].pooled
            /\ PayloadCleared(items'[i])
            /\ i \notin Range(workItems') \cup Range(queue')
       /\ GetFreeItemRecycles =>
            LET it == Head(poolItems)
            IN  /\ it \notin Held /\ it \in Held'
                /\ items'[it] = items[it]
                /\ PayloadCleared(items'[it])]_vars

\* GetFreeItem has handed out a recycled instance: it is pooled, held by the
\* caller, and carries the fields ReturnToPool gave it, while another
\* recycled instance waits in the free list.
RecycledItemHandedOut ==
    /\ mainPc = "idle"
    /\ \E i \in Held :
          items[i].pooled /\ items[i].priority = M_MAX_UNSIGNED /\ PayloadCleared(items[i])
    /\ poolItems # <<>>

\* AddWorkItem inserts an item that carries the priority ReturnToPool gave it.
InsertsRecycled ==
    /\ mainPc = "add_insert" /\ mainPc' # mainPc
    /\ items[arg].pooled /\ items[arg].priority = M_MAX_UNSIGNED

\* C16 as stated: the value ReturnToPool leaves in priority_ ranks lowest, so
\* a recycled item resubmitted with that priority is behind every queued
\* item of a different priority.
RecycledItemGoesLast ==
    [][InsertsRecycled =>
          \A j \in Range(queue) :
              items[j].priority # items[arg].priority =>
                  IndexOf(queue', j) < IndexOf(queue', arg)]_vars

\* C16, amended: ReturnToPool leaves M_MAX_UNSIGNED in priority_, and no
\* priority value ranks above it: every item in the free list carries it, no
\* queued item has a larger priority, and a recycled item resubmitted with
\* that priority is put at the front of the queue, ahead of every item that
\* was queued.
RecycledItemGoesFirst ==
    [][/\ \A i \in Range(poolItems') : items'[i].priority = M_MAX_UNSIGNED
       /\ \A j \in Range(queue') : items'[j].priority <= M_MAX_UNSIGNED
       /\ InsertsRecycled => queue' = <<arg>> \o queue]_vars

\* A recycled item resubmitted with the priority it came back with stands in
\* front of an item of priority 3 that was queued before it.
RecycledAheadOfPriority3 ==
    /\ Len(queue) = 2
    /\ items[queue[1]].pooled /\ items[queue[1]].priority = M_MAX_UNSIGNED
    /\ items[queue[2]].priority = 3
    /\ SubmittedBefore(queue[2], queue[1])

\* The number of distinct items still to be visited by the loop of
\* RemoveWorkItems that are in the queue.
ListedAndQueued == Cardinality(Range(argList) \cap Range(queue))

\* C12: RemoveWorkItems(list) returns the number of distinct listed items
\* that were in the queue when the call took the lock, removes exactly those
\* from the queue and the live list (a pooled one goes to the free list with
\* its fields reset), and no worker dequeues between two removals of the
\* call.  The count so far plus the number of distinct listed items still
\* queued stays what it was when the lock was taken, through the turns of
\* the loop and every step of a worker, and the list is used up at the return.
RemoveWorkItemsExact ==
    [][/\ mainPc = "rms_lock" /\ mainPc' = "rms_body" =>
            ret' = 0 /\ UNCHANGED <<items, queue, workItems, poolItems, argList>>
       /\ mainPc = "rms_body" =>
            /\ ~WorkerDequeues
            /\ ret' + ListedAndQueued' = ret + ListedAndQueued
       /\ mainPc = "rms_body" /\ argList' # argList =>
            LET it == Head(argList)
            IN  IF it \in Range(queue)
                THEN /\ queue' = Erase(queue, IndexOf(queue, it))
                     /\ workItems' = Erase(workItems, IndexOf(workItems, it))
                     /\ ret' = ret + 1
                     /\ IF items[it].pooled
                        THEN poolItems' = Append(poolItems, it) /\ FieldsReset(items'[it])
                        ELSE poolItems' = poolItems
                     /\ \A j \in Items \ {it} : items'[j] = items[j]
                ELSE UNCHANGED <<items, queue, workItems, poolItems, ret>>
       /\ mainPc = "rms_body" /\ mainPc' = "rm_ret" =>
            /\ argList = <<>> /\ ret' = ret
            /\ UNCHANGED <<items, queue, workItems, poolItems>>]_vars

\* RemoveWorkItems has removed two items while a running worker waits for
\* the mutex.
RemovedTwoWhileWorkerWaits ==
    /\ mainPc = "rm_ret" /\ ret = 2
    /\ threads > 0 /\ ~paused
    /\ \E w \in Workers : wPc[w] = "lock"

\* ------------------------------------------------ PurgePool, turn by turn
\* Largest free list the pool specification starts from.
MaxPool == 13
\* Largest size recorded by the previous PurgePool that it starts from.
MaxLastSize == 24

\* The pool specification starts between two calls with a free list of n
\* instances and the size the previous PurgePool recorded, both arbitrary:
\* the free list grows by purges and shrinks by GetFreeItem between frames.
\* Nothing is live or queued and there are no workers.
InitPool ==
    /\ items = [i \in Items |-> DefaultItem]
    /\ allocated = {}
    /\ queue = <<>>
    /\ workItems = <<>>
    /\ \E n \in 0..MaxPool : poolItems = [k \in 1..n |-> k]
    /\ lastSize \in 0..MaxLastSize
    /\ threads = 0
    /\ paused = FALSE
    /\ pausing = FALSE
    /\ shutDown = FALSE
    /\ completing = FALSE
    /\ queueMutex = {}
    /\ relocked = FALSE
    /\ mainPc = "idle"
    /\ retPc = "idle"
    /\ arg = Null
    /\ argList = <<>>
    /\ curItem = Null
    /\ timer = 0
    /\ ret = -1
    /\ wPc = [w \in 1..MaxThreads |-> "none"]
    /\ wasActive = [w \in 1..MaxThreads |-> FALSE]
    /\ wItem = [w \in 1..MaxThreads |-> Null]
    /\ execCount = [i \in Items |-> 0]
    /\ frameOnly = FALSE
    /\ pausedBy = "none"
    /\ sentEvents = [i \in Items |-> <<>>]

\* A loop test that leaves out the tolerance.
PurgePoolContinues_NoTolerance(size, difference, i) ==
    size > 0 /\ i < difference

\* The loop test of PurgePool: "poolItems_.size() > 0 && difference >
\* tolerance_ && i < (unsigned)difference".  The cast is evaluated only
\* when difference > tolerance_ > 0, where it changes nothing.
PurgePoolContinues(size, difference, i) ==
    size > 0 /\ difference > Tolerance /\ i < difference

\* "PurgeCompleted(0)", then the first two statements of PurgePool:
\* "currentSize = poolItems_.size(); difference = lastSize_ - currentSize".
\* arg is difference and ret the loop counter i.
HandleBeginFrame_PurgeCompleted ==
    /\ mainPc = "hbf_purge"
    /\ LET st == PurgeCompleted(0)
       IN  /\ items' = ItemsAfterErase(workItems, st.kept, st.items)
           /\ allocated' = allocated \ Dropped(workItems, st.kept, st.items)
           /\ workItems' = st.kept
           /\ poolItems' = st.pool
           /\ execCount' = ExecOf(st.kept)
           /\ arg' = lastSize - Len(st.pool)
           /\ sentEvents' = st.sent
    /\ ret' = 0
    /\ mainPc' = "pool"
    /\ UNCHANGED <<queue, lastSize, flagVars, mutexVars, retPc, argList, curItem, timer,
                   workerVars, frameOnly, pausedBy>>

\* One turn of the loop: "poolItems_.pop_front()", "i++".
PurgePool_Pop ==
    /\ mainPc = "pool"
    /\ PurgePoolContinues(Len(poolItems), arg, ret)
    /\ poolItems' = Tail(poolItems)
    /\ ret' = ret + 1
    /\ UNCHANGED <<itemVars, queue, workItems, lastSize, flagVars, mutexVars, mainPc,
                   retPc, arg, argList, curItem, timer, workerVars, execCount, envVars>>

\* The loop ends: "lastSize_ = currentSize" and the frame hook returns.
\* currentSize is the size at entry: i entries have been popped since.
PurgePool_End ==
    /\ mainPc = "pool"
    /\ ~PurgePoolContinues(Len(poolItems), arg, ret)
    /\ lastSize' = Len(poolItems) + ret
    /\ timer' = 0
    /\ ret' = -1
    /\ arg' = Null
    /\ mainPc' = "idle"
    /\ UNCHANGED <<itemVars, queue, workItems, poolItems, flagVars, mutexVars, retPc,
                   argList, curItem, workerVars, execCount, envVars>>

\* The application takes instances from the free list between frames.
MainCallPool ==
    \/ GetFreeItem(0)
    \/ HandleBeginFrame_Call

MainStepPool ==
    \/ HandleBeginFrame_PurgeCompleted
    \/ PurgePool_Pop
    \/ PurgePool_End

NextPool ==
    \/ MainCallPool
    \/ MainStepPool

SpecPool == InitPool /\ [][NextPool]_vars

\* ------------------------------------------- the frame hook, no Complete
\* Workers of the specification below.
HookThreads == 1

\* An application that submits work and never calls Complete: the frame
\* driver sends E_BEGINFRAME again and again, and the main thread goes on
\* inside an operation it has started.
MainStepHook ==
    \/ AddWorkItem_Lock \/ AddWorkItem_Insert
    \/ AddWorkItem_Unlock \/ AddWorkItem_Unpause
    \/ Pause_Begin \/ Pause_Lock \/ Pause_Set
    \/ CreateThreads_Spawn \/ CreateThreads_Return
    \/ HandleBeginFrame_Loop \/ (\E usec \in WorkUSec : HandleBeginFrame_Run(usec))
    \/ HandleBeginFrame_PurgeBegin \/ PurgeCompleted_Step \/ HandleBeginFrame_PurgeEnd

MainCallHook ==
    \/ GetFreeItem(NumItems) \/ NewWorkItem(NumItems)
    \/ (\E it \in Items, p \in Priorities : AddWorkItem_Begin(it, p, FALSE))
    \/ (\E numThreads \in 0..HookThreads : CreateThreads_Call(numThreads))

NextHook ==
    \/ MainCallHook
    \/ HandleBeginFrame_Call
    \/ MainStepHook
    \/ \E w \in 1..HookThreads : WorkerStep(w)

SpecHook ==
    /\ Init
    /\ [][NextHook]_vars
    /\ WF_vars(MainStepHook)
    /\ SF_vars(HandleBeginFrame_Call)

\* ------------------------------------------------- duplicate submission
\* Workers of the specification below, and the longest live list in it.
DupThreads == 1
MaxLive == 3

\* A duplicate submission that appends to the live list before the
\* assertion stops the program.
AddWorkItem_DuplicateLateCheck(it) ==
    /\ mainPc = "idle"
    /\ it \in Range(workItems)
    /\ Len(workItems) < MaxLive
    /\ workItems' = Append(workItems, it)
    /\ arg' = it
    /\ mainPc' = "aborted"
    /\ UNCHANGED <<itemVars, queue, poolItems, lastSize, flagVars, mutexVars, retPc,
                   argList, curItem, timer, ret, workerVars, execCount, envVars>>

\* AddWorkItem(it) for an item that is in the live list, whose reference the
\* application has kept.  "assert(find(workItems_.begin(), workItems_.end(),
\* item) == workItems_.end())" stops the program in a build with assertions;
\* in a build with NDEBUG the statement is empty and the call goes on:
\* "workItems_.push_back(item); item->completed_ = false".
AddWorkItem_Duplicate(it) ==
    /\ mainPc = "idle"
    /\ it \in Range(workItems)
    /\ Len(workItems) < MaxLive
    /\ arg' = it
    /\ \/ /\ mainPc' = "aborted"
          /\ UNCHANGED <<items, workItems>>
       \/ /\ workItems' = Append(workItems, it)
          /\ items' = [items EXCEPT ![it].completed = FALSE]
          /\ mainPc' = "add_lock"
    /\ UNCHANGED <<allocated, queue, poolItems, lastSize, flagVars, mutexVars, retPc,
                   argList, curItem, timer, ret, workerVars, execCount, envVars>>

\* An application that keeps the references of the items it submits and
\* submits some of them again before any purge.
MainStepDup ==
    \/ AddWorkItem_Lock \/ AddWorkItem_Insert
    \/ AddWorkItem_Unlock \/ AddWorkItem_Unpause
    \/ Pause_Begin \/ Pause_Lock \/ Pause_Set
    \/ CreateThreads_Spawn \/ CreateThreads_Return

MainCallDup ==
    \/ GetFreeItem(UnitItems) \/ NewWorkItem(UnitItems)
    \/ (\E it \in Items, p \in Priorities : AddWorkItem_Begin(it, p, FALSE))
    \/ (\E it \in Items : AddWorkItem_Duplicate(it))
    \/ (\E numThreads \in 0..DupThreads : CreateThreads_Call(numThreads))

\* Once an assertion has failed the process is gone.
NextDup ==
    \/ MainCallDup
    \/ MainStepDup
    \/ mainPc # "aborted" /\ \E w \in 1..DupThreads : WorkerStep(w)

SpecDup == Init /\ [][NextDup]_vars

\* ------------------------------------------------- the fallback's budget
\* Workers of the specification below.
BudgetThreads == 1

\* An application that submits up to FrameItems items between frames, with
\* or without workers, and leaves the execution to the frame hook or to
\* the workers.
MainStepBudget ==
    \/ AddWorkItem_Lock \/ AddWorkItem_Insert
    \/ AddWorkItem_Unlock \/ AddWorkItem_Unpause
    \/ Pause_Begin \/ Pause_Lock \/ Pause_Set
    \/ CreateThreads_Spawn \/ CreateThreads_Return
    \/ HandleBeginFrame_Loop \/ (\E usec \in WorkUSec : HandleBeginFrame_Run(usec))
    \/ HandleBeginFrame_Purge

MainCallBudget ==
    \/ GetFreeItem(FrameItems)
    \/ (\E it \in Items, p \in Priorities : AddWorkItem_Begin(it, p, FALSE))
    \/ (\E numThreads \in 0..BudgetThreads : CreateThreads_Call(numThreads))

NextBudget ==
    \/ MainCallBudget
    \/ HandleBeginFrame_Call
    \/ MainStepBudget
    \/ \E w \in 1..BudgetThreads : WorkerStep(w)

SpecBudget == Init /\ [][NextBudget]_vars

\* ------------------------------------- the barrier and the pause gate
\* Workers of the specification below.
BarrierThreads == 1

\* An application that uses AddWorkItem, Pause, Resume, Complete,
\* CreateThreads and the frame hook, with or without workers, and never
\* cancels.  The main thread goes on inside an operation it has started;
\* a worker that can take a step takes one, and a worker waiting for the
\* mutex gets it when the mutex is released again and again; an entry
\* point returns.
MainStepBarrier == CommonStep \/ PauseStep \/ ThreadedStep \/ UnthreadedStep

MainCallBarrier ==
    \/ GetFreeItem(UnitItems)
    \/ (\E it \in Items, p \in Priorities : AddWorkItem_Begin(it, p, FALSE))
    \/ Pause_Call \/ Resume_Call
    \/ (\E priority \in Thresholds : Complete_Call(priority))
    \/ (\E numThreads \in 0..BarrierThreads : CreateThreads_Call(numThreads))

NextBarrier ==
    \/ MainCallBarrier
    \/ HandleBeginFrame_Call
    \/ MainStepBarrier
    \/ \E w \in 1..BarrierThreads : WorkerStep(w)

SpecBarrier ==
    /\ Init
    /\ [][NextBarrier]_vars
    /\ WF_vars(MainStepBarrier)
    /\ \A w \in 1..BarrierThreads :
          /\ WF_vars(ProcessItems_Top(w))
          /\ SF_vars(ProcessItems_Pop(w))
          /\ WF_vars(ProcessItems_Run(w))

\* ------------------------------------------------------------- shutdown
\* Workers of the specification below.
ShutdownThreads == 2

\* An application that creates up to ShutdownThreads workers, submits items,
\* pauses and resumes, and destroys the scheduler at some point between two
\* calls.  The main thread goes on inside a call it has started, Stop()
\* returns once the thread has left its function, and the workers are
\* scheduled as in SpecBarrier.
MainStepShutdown ==
    \/ AddWorkItem_Lock \/ AddWorkItem_Insert
    \/ AddWorkItem_Unlock \/ AddWorkItem_Unpause
    \/ PauseStep
    \/ CreateThreads_Spawn \/ CreateThreads_Return
    \/ Destructor_Stop

MainCallShutdown ==
    \/ GetFreeItem(UnitItems)
    \/ (\E it \in Items, p \in Priorities : AddWorkItem_Begin(it, p, FALSE))
    \/ Pause_Call \/ Resume_Call
    \/ (\E numThreads \in 0..ShutdownThreads : CreateThreads_Call(numThreads))
    \/ Destructor_Call

NextShutdown ==
    \/ MainCallShutdown
    \/ MainStepShutdown
    \/ \E w \in 1..ShutdownThreads : WorkerStep(w)

SpecShutdown ==
    /\ Init
    /\ [][NextShutdown]_vars
    /\ WF_vars(MainStepShutdown)
    /\ \A w \in 1..ShutdownThreads :
          /\ WF_vars(ProcessItems_Top(w))
          /\ SF_vars(ProcessItems_Pop(w))
          /\ WF_vars(ProcessItems_Run(w))

\* C21: Pause and Resume are idempotent.  Pause() on a paused scheduler goes
\* straight to its return without trying to lock the mutex and changes
\* nothing; Resume() on a running scheduler goes straight to its return
\* without unlocking and changes nothing; when Pause() returns the scheduler
\* is paused with the mutex held by the caller, and when Resume() returns it
\* is running and the caller does not hold the mutex, so Pause() followed by
\* Resume() restores the running state.
PauseResumeIdempotent ==
    [][/\ mainPc = "pause" /\ paused /\ mainPc' # mainPc =>
            /\ mainPc' = retPc
            /\ queueMutex = {Main}
            /\ UNCHANGED <<paused, pausing, queueMutex, relocked, threads, queue,
                           workItems, poolItems, items>>
       /\ mainPc = "resume" /\ ~paused /\ mainPc' # mainPc =>
            /\ mainPc' = retPc
            /\ UNCHANGED <<paused, pausing, queueMutex, relocked, threads, queue,
                           workItems, poolItems, items>>
       /\ mainPc = "resume" /\ paused => queueMutex = {Main}
       /\ mainPc \in {"pause", "pause_set"} /\ mainPc' = retPc =>
            paused' /\ ~pausing' /\ queueMutex' = {Main}
       /\ mainPc \in {"resume", "resume_flag"} /\ mainPc' = retPc =>
            ~paused' /\ Main \notin queueMutex']_vars

\* The application has called Pause() on a scheduler that is already paused,
\* with workers and a queued item.
PauseCalledWhilePaused ==
    /\ mainPc = "pause" /\ retPc = "idle"
    /\ paused /\ threads > 0
    /\ queue # <<>>

\* The application has called Resume() on a running scheduler with workers.
ResumeCalledWhileRunning ==
    /\ mainPc = "resume" /\ retPc = "idle"
    /\ ~paused /\ threads > 0

\* C22: with worker threads, when Complete finds the queue empty after its
\* wait it calls Pause(), and it then reaches PurgeCompleted and its return
\* with the scheduler paused, the mutex held by the calling thread and the
\* queue still empty; it returns with the scheduler running only when it
\* found the queue not empty.
CompleteParksWorkers ==
    [][/\ mainPc = "cmp_check" /\ mainPc' # mainPc /\ queue = <<>> =>
            mainPc' = "pause" /\ retPc' = "cmp_purge"
       /\ mainPc \in {"cmp_purge", "cmp_ret"} /\ threads > 0 /\ retPc = "cmp_purge" =>
            paused /\ queueMutex = {Main} /\ queue = <<>>
       /\ mainPc = "cmp_ret" /\ threads > 0 /\ ~paused => retPc = "cmp_loop"]_vars

\* Complete has returned after finding the queue empty: the scheduler is
\* paused by it and a worker waits for the mutex.
CompleteLeftWorkersParked ==
    /\ mainPc = "cmp_ret" /\ threads > 0
    /\ paused /\ pausedBy = "Complete" /\ queueMutex = {Main}
    /\ queue = <<>>
    /\ \E w \in Workers : wPc[w] = "lock"

\* The calling thread of Complete runs the item it has dequeued.
CompleteRuns == mainPc \in {"cmp_run", "cmp_nt_run"} /\ mainPc' # mainPc

\* The calling thread of Complete decides whether to dequeue the front item.
CompleteDecides == mainPc \in {"cmp_locked", "cmp_nt"} /\ mainPc' # mainPc

\* C23 as stated: whenever the thread that called Complete(p) runs an item,
\* the scheduler has been un-paused and the item's priority is >= p.
CompleteUnpausesThenDrains ==
    [][CompleteRuns => ~paused /\ items[curItem].priority >= arg]_vars

\* C23, amended: with worker threads the scheduler is un-paused, and the
\* mutex released, before the caller of Complete(p) drains; without worker
\* threads Complete leaves the paused flag and the mutex as they are.  In
\* both cases the caller dequeues the front item exactly when the queue is
\* not empty and the front has priority >= p, stops draining otherwise, and
\* every item it runs has priority >= p.
CompleteDrainsAboveThreshold ==
    [][/\ threads > 0 /\ mainPc \in {"cmp_loop", "cmp_lock", "cmp_locked", "cmp_run", "cmp_wait"} =>
            /\ ~paused
            /\ Main \in queueMutex <=> mainPc = "cmp_locked"
       /\ threads = 0 /\ mainPc \in {"cmp_nt", "cmp_nt_run"} /\ mainPc' # mainPc =>
            UNCHANGED <<paused, queueMutex>>
       /\ CompleteDecides =>
            IF queue # <<>> /\ items[Head(queue)].priority >= arg
            THEN /\ curItem' = Head(queue) /\ queue' = Tail(queue)
                 /\ mainPc' \in {"cmp_run", "cmp_nt_run"}
            ELSE /\ queue' = queue /\ curItem' = curItem
                 /\ mainPc' \in {"cmp_wait", "cmp_purge"}
       /\ CompleteRuns =>
            /\ items[curItem].priority >= arg
            /\ execCount'[curItem] = execCount[curItem] + 1
            /\ items'[curItem].completed]_vars

\* Complete(3) with workers has stopped draining with an item of priority 1
\* at the front of the queue.
CompleteStoppedAtLowPriority ==
    /\ mainPc = "cmp_wait" /\ arg = 3
    /\ threads > 0
    /\ queue # <<>> /\ items[Head(queue)].priority = 1

\* Complete without workers runs an item while the scheduler stays paused.
CompleteDrainsWhilePaused ==
    /\ mainPc = "cmp_nt_run"
    /\ threads = 0 /\ paused /\ queueMutex = {Main}

\* C27: every item in the priority queue is in the live list, in every state
\* including those inside AddWorkItem and RemoveWorkItem, and an item that is
\* live and no longer queued leaves the live list only when it is completed
\* and a purge (of Complete or of the frame hook) removes it.
QueueWithinLiveList ==
    [][/\ Range(queue) \subseteq Range(workItems)
       /\ Range(queue') \subseteq Range(workItems')
       /\ \A i \in Range(workItems) \ Range(queue) :
             i \notin Range(workItems') =>
                 /\ items[i].completed
                 /\ mainPc \in {"cmp_purge", "hbf_purge"} /\ mainPc' # mainPc]_vars

\* AddWorkItem has put an item in the live list and not yet in the queue,
\* while a worker holds another live item that it has dequeued.
LiveButNotQueued ==
    /\ mainPc = "add_insert"
    /\ arg \in Range(workItems) /\ arg \notin Range(queue)
    /\ \E w \in Workers : wItem[w] \in Range(workItems) /\ wItem[w] # arg

\* C29: completed_ is false while the item is in the queue and while a
\* thread that has dequeued it has not finished running it; it goes from
\* false to true only in the step of the thread that holds the item, after
\* the one invocation of that submission, and that thread always sets it;
\* once true it stays true as long as the item is in the live list.
CompletedSetOnceAfterRun ==
    [][\A i \in Items :
          /\ i \in Range(queue) => ~items[i].completed
          /\ InHand(i) => ~items[i].completed /\ i \notin Range(queue)
          /\ ~items[i].completed /\ items'[i].completed =>
                /\ InHand(i) /\ ~InHand(i)'
                /\ execCount[i] = 0 /\ execCount'[i] = 1
          /\ InHand(i) /\ ~InHand(i)' => items'[i].completed
          /\ items[i].completed /\ i \in Range(workItems) /\ i \in Range(workItems') =>
                items'[i].completed /\ execCount'[i] = 1]_vars

\* One item is completed and not yet purged while a worker is running the
\* other, which is not completed.
CompletedBesideRunning ==
    /\ \E i \in Range(workItems) : items[i].completed /\ execCount[i] = 1
    /\ \E w \in Workers : wPc[w] = "run" /\ ~items[wItem[w]].completed

\* The step changes the priority queue.
QueueMutated == queue' # queue

\* The step changes the live list.
LiveListMutated == workItems' # workItems

\* C30 as stated: when worker threads exist, every step that changes the
\* queue or the live list is taken by a thread that holds the queue mutex
\* (the main thread owning it, or a worker inside its critical section).
ListsMutatedUnderMutex ==
    [][threads > 0 /\ (QueueMutated \/ LiveListMutated) =>
          \/ queueMutex = {Main} /\ UNCHANGED workerVars
          \/ queueMutex = {} /\ WorkerDequeues]_vars

\* C30, amended: when worker threads exist, every step that changes the
\* queue is taken by a thread that holds the queue mutex; the live list is
\* changed only by the main thread (AddWorkItem, RemoveWorkItem,
\* PurgeCompleted), with or without the mutex, and never by a worker.
QueueMutatedUnderMutex ==
    [][threads > 0 =>
          /\ QueueMutated =>
                \/ queueMutex = {Main} /\ UNCHANGED workerVars
                \/ queueMutex = {} /\ WorkerDequeues /\ mainPc' = mainPc
          /\ LiveListMutated =>
                /\ UNCHANGED workerVars
                /\ mainPc \in {"idle", "rm_body", "cmp_purge", "hbf_purge"}]_vars

\* AddWorkItem has appended to the live list while the workers run and
\* nobody holds the mutex.
AppendedToLiveListUnlocked ==
    /\ mainPc = "add_lock"
    /\ threads > 0 /\ ~paused /\ queueMutex = {}
    /\ arg \in Range(workItems)

\* C26: PurgePool removes entries only when the free list is more than
\* Tolerance (10) entries shorter than the size the previous PurgePool
\* recorded, and otherwise leaves it unchanged; when it trims it removes
\* entries from the front, at most (recorded size - current size) of them
\* and no more than the list holds: exactly the smaller of the two.  It
\* records the size it found on entry.
PurgePoolHysteresis ==
    [][/\ mainPc = "pool" =>
            /\ arg = lastSize - (Len(poolItems) + ret)
            /\ ret >= 0
            /\ ret > 0 => arg > Tolerance /\ ret <= arg
       /\ mainPc = "pool" /\ mainPc' = "pool" =>
            /\ arg > Tolerance
            /\ poolItems' = Tail(poolItems) /\ Len(poolItems) > 0
       /\ mainPc = "pool" /\ mainPc' = "idle" =>
            /\ arg <= Tolerance => ret = 0
            /\ arg > Tolerance => ret = Min(arg, Len(poolItems) + ret)
            /\ lastSize' = Len(poolItems) + ret
            /\ poolItems' = poolItems
            /\ poolItems = PurgePool([k \in 1..(Len(poolItems) + ret) |->
                                        IF k <= ret THEN Null ELSE poolItems[k - ret]],
                                     lastSize)]_vars

\* PurgePool has emptied a free list that held fewer entries than the list
\* had shrunk by.
PoolTrimmedToEmpty ==
    /\ mainPc = "pool"
    /\ ret > 0 /\ ret < arg
    /\ poolItems = <<>>

\* PurgePool has stopped trimming with entries left.
PoolTrimmedByDifference ==
    /\ mainPc = "pool"
    /\ ret > 0 /\ ret = arg
    /\ poolItems # <<>>

\* PurgePool found the free list shorter than recorded by no more than the
\* tolerance and leaves it alone.
PoolWithinTolerance ==
    /\ mainPc = "pool"
    /\ ret = 0 /\ arg > 0 /\ arg <= Tolerance
    /\ poolItems # <<>>

\* The main thread's step erases live item i in a purge.
PurgedInStep(i) ==
    /\ mainPc \in {"cmp_purge", "hbf_purge", "purge"}
    /\ i \in Range(workItems) /\ i \notin Range(workItems')

\* C24: a completion event is sent only in the purge step that erases the
\* item from the live list, only for an item that is completed and has
\* sendEvent_ set, once, and the handler finds the item's fields not yet
\* reset; such a purge step always sends it.  An item that is live has no
\* event sent for its submission; the purge of an item with sendEvent_ clear
\* and the cancellation of an item by RemoveWorkItem send nothing.
OneEventPerPurgedItem ==
    [][\A i \in Items :
          /\ Len(sentEvents[i]) <= 1
          /\ i \in Range(workItems) => sentEvents[i] = <<>>
          /\ sentEvents'[i] # sentEvents[i] /\ sentEvents'[i] # <<>> =>
                /\ PurgedInStep(i)
                /\ items[i].completed /\ items[i].sendEvent
                /\ sentEvents'[i] = <<TRUE>>
          /\ PurgedInStep(i) =>
                /\ items[i].completed
                /\ sentEvents'[i] = IF items[i].sendEvent THEN <<TRUE>> ELSE <<>>
          /\ (i \in Range(workItems) /\ i \notin Range(workItems') /\ ~PurgedInStep(i)) =>
                /\ mainPc = "rm_body"
                /\ ~items[i].completed
                /\ UNCHANGED sentEvents]_vars

\* A pooled item has been purged with its event sent and its fields then
\* reset, and RemoveWorkItem has just cancelled another pooled item, for
\* which no event is recorded.
EventSentThenReset ==
    /\ mainPc = "rm_ret" /\ ret = 1
    /\ arg \in Range(poolItems) /\ sentEvents[arg] = <<>>
    /\ \E i \in Range(poolItems) : sentEvents[i] = <<TRUE>> /\ ~items[i].workFunction

\* C25: every frame-hook call, with or without workers, goes on to
\* PurgeCompleted(0) and then PurgePool(): the scan erases every entry that
\* is completed when it is examined, whatever its priority, and when the
\* scan is over the free list is trimmed and its size recorded.  Without
\* workers no completed item is left in the live list when the hook
\* returns.  With frame hooks sent again and again, every completed item
\* in the live list eventually leaves it, without any call of Complete.
FrameHookReclaims ==
    /\ [][/\ mainPc = "idle" /\ mainPc' \in {"hbf_loop", "hbf_purge"} =>
               (mainPc' = "hbf_loop" <=> threads = 0 /\ queue # <<>>)
          /\ mainPc \in {"hbf_loop", "hbf_run"} => mainPc' \in {"hbf_loop", "hbf_run", "hbf_purge"}
          /\ mainPc = "hbf_purge" /\ mainPc' # mainPc =>
               mainPc' = "purge" /\ arg' = 0 /\ ret' = 1 /\ ~completing
          /\ mainPc = "purge" /\ mainPc' = "purge" /\ (ret' # ret \/ workItems' # workItems) =>
               LET it == workItems[ret]
               IN  IF items[it].completed
                   THEN workItems' = Erase(workItems, ret) /\ ret' = ret
                   ELSE workItems' = workItems /\ ret' = ret + 1
          /\ mainPc = "purge" /\ mainPc' # mainPc =>
               /\ mainPc' = "idle"
               /\ ret > Len(workItems)
               /\ poolItems' = PurgePool(poolItems, lastSize)
               /\ lastSize' = Len(poolItems)
               /\ threads = 0 => \A i \in Range(workItems) : ~items[i].completed
               /\ ~completing]_vars
    /\ \A i \in Items :
          (i \in Range(workItems) /\ items[i].completed) ~> (i \notin Range(workItems))

\* The frame hook's scan, with a worker present, has erased one completed
\* item (now in the free list) and is about to examine another completed
\* item, of priority 1.
HookPurgedLowPriority ==
    /\ mainPc = "purge" /\ ~completing /\ threads > 0
    /\ ret = 1 /\ Len(workItems) = 1
    /\ items[workItems[1]].completed /\ items[workItems[1]].priority = 1
    /\ \E i \in Range(poolItems) : execCount[i] = 0 /\ i \notin Range(workItems)
    /\ lastSize < Len(poolItems)

\* Some value occurs at two positions of s.
HasDuplicate(s) == \E a, b \in 1..Len(s) : a # b /\ s[a] = s[b]

\* The step is a call of AddWorkItem with an item that is in the live list.
DuplicateSubmission ==
    /\ mainPc = "idle" /\ mainPc' \in {"add_lock", "aborted"}
    /\ arg' \in Range(workItems)

DuplicateStopsProgram ==
    /\ mainPc = "aborted"
    /\ arg \in Range(workItems) /\ ~HasDuplicate(workItems)

\* Worker w goes from the top of its loop to "queueMutex_.lock()".
GoesForMutex(w) == wPc[w] = "top" /\ wPc'[w] = "lock"

\* C31 as stated: while paused_ is set, a worker that has not run an item
\* since its last empty poll does not go for the mutex.
IdleWorkerYieldsWhilePaused ==
    [][\A w \in Workers : paused /\ ~wasActive[w] => ~GoesForMutex(w)]_vars

\* C31, amended: a worker that has not run an item since its last empty
\* poll stays away from the mutex exactly while pausing_ is set, that is
\* while a Pause() is between its first statement and its lock; a worker
\* that goes for the mutex does so with shutDown_ clear and with pausing_
\* clear or wasActive set, and in every such state its next step is to go
\* for the mutex, whatever paused_ says.  Once Pause() has returned pausing_ is clear, and
\* a worker at the lock takes no step as long as the main thread holds the
\* mutex: it waits on the mutex for the rest of the pause.
IdleWorkerYieldsWhilePausing ==
    [][\A w \in Workers :
          /\ GoesForMutex(w) => ~shutDown /\ (~pausing \/ wasActive[w])
          /\ wPc[w] = "top" /\ ~shutDown /\ (~pausing \/ wasActive[w]) =>
                ENABLED (ProcessItems_Top(w) /\ wPc'[w] = "lock")
          /\ pausing => mainPc \in {"pause_lock", "pause_set"} /\ ~paused
          /\ paused /\ mainPc = "idle" => ~pausing
          /\ wPc[w] = "lock" /\ Main \in queueMutex /\ Main \in queueMutex' =>
                wPc'[w] = "lock" /\ wItem'[w] = wItem[w] /\ wasActive'[w] = wasActive[w]]_vars

\* The scheduler is paused, between two calls, and a worker that found the
\* queue empty at its last poll waits at the mutex.
IdleWorkerWaitsOnMutex ==
    /\ paused /\ ~pausing /\ mainPc = "idle" /\ queueMutex = {Main}
    /\ \E w \in Workers : wPc[w] = "lock" /\ ~wasActive[w]

\* A Pause() waits for the mutex while an idle worker is at the top of its
\* loop, where it yields.
IdleWorkerYields ==
    /\ pausing /\ mainPc = "pause_lock"
    /\ \E w \in Workers : wPc[w] = "top" /\ ~wasActive[w]

\* The step is a step of a worker thread in ProcessItems.
WorkerActs == workerVars' # workerVars /\ mainPc' = mainPc

\* C40: a step of a worker thread leaves the live list, the free list,
\* lastSize_, the flags (paused_ among them), the ownership of the mutex
\* between its critical sections, the events sent and the main thread's
\* locals as they are; it leaves the queue as it is or pops its front,
\* which becomes the worker's item; the only item field it changes is
\* completed_ of the item the worker holds, which it sets.
WorkerFrame ==
    [][WorkerActs =>
          /\ UNCHANGED <<workItems, poolItems, lastSize, allocated, flagVars, mutexVars,
                         localVars, sentEvents>>
          /\ \/ queue' = queue
             \/ /\ queue # <<>> /\ queue' = Tail(queue)
                /\ \E w \in Workers : wItem[w] = Null /\ wItem'[w] = Head(queue)
          /\ \A i \in Items :
                items'[i] # items[i] =>
                    /\ \E w \in Workers : wItem[w] = i /\ wItem'[w] = Null
                    /\ items'[i] = [items[i] EXCEPT !.completed = TRUE]]_vars

\* A worker has run an item, which is completed and still in the live
\* list, and is back at the top of its loop while another item is queued.
WorkerFinishedItem ==
    /\ mainPc = "idle"
    /\ \E w \in Workers : wPc[w] = "top" /\ wasActive[w]
    /\ \E i \in Range(workItems) : items[i].completed /\ i \notin Range(queue)
    /\ queue # <<>>

\* The budget of the fallback in microseconds: "maxNonThreadedWorkMs_ * 1000LL".
BudgetUSec == MaxNonThreadedWorkMs * 1000

\* C34: the frame hook enters its fallback loop only without workers and
\* with a non-empty queue; each turn of the loop starts the front item
\* exactly when the queue is not empty and the time elapsed in this call
\* is below the budget, and otherwise ends the loop with the queue as it
\* is, so the remaining items stay queued in their order; the main thread
\* takes an item in the hook only in such a turn.  With workers the hook
\* goes straight to its purge and returns with the queue untouched by it
\* and without having run an item.
FallbackWithinBudget ==
    [][/\ mainPc = "idle" /\ mainPc' \in {"hbf_loop", "hbf_purge"} =>
            /\ mainPc' = "hbf_loop" <=> threads = 0 /\ queue # <<>>
            /\ mainPc' = "hbf_loop" => timer' = 0
            /\ queue' = queue /\ curItem' = Null
       /\ mainPc \in {"hbf_loop", "hbf_run"} => threads = 0
       /\ mainPc = "hbf_loop" /\ mainPc' # mainPc =>
            IF queue # <<>> /\ timer < BudgetUSec
            THEN mainPc' = "hbf_run" /\ curItem' = Head(queue) /\ queue' = Tail(queue)
            ELSE mainPc' = "hbf_purge" /\ queue' = queue /\ curItem' = Null
       /\ mainPc = "hbf_run" /\ mainPc' # mainPc =>
            /\ mainPc' = "hbf_loop" /\ queue' = queue
            /\ timer' > timer /\ execCount'[curItem] = execCount[curItem] + 1
       /\ mainPc = "hbf_purge" /\ mainPc' # mainPc =>
            /\ mainPc' = "idle" /\ curItem = Null
            /\ threads > 0 => queue' = queue /\ execCount' = ExecOf(workItems')
       /\ mainPc \in {"hbf_loop", "hbf_run", "hbf_purge"} /\ curItem' # curItem /\ curItem' # Null =>
            mainPc = "hbf_loop" /\ timer < BudgetUSec]_vars

\* The fallback loop has used up its budget with an item still queued.
BudgetReachedItemLeft ==
    /\ threads = 0 /\ mainPc = "hbf_loop"
    /\ timer >= BudgetUSec
    /\ queue # <<>> /\ curItem = Null
    /\ \E i \in Range(workItems) : items[i].completed

\* The frame hook runs with a worker present and items queued.
HookLeavesQueueToWorkers ==
    /\ threads > 0 /\ mainPc = "hbf_purge"
    /\ queue # <<>>

\* C38: with no worker threads, whenever the main thread is between two
\* calls or at the return of Complete or of a Remove call, the items in the
\* live list are exactly the items in the queue: what an operation has
\* executed it has also purged.
UnthreadedLiveEqualsQueued ==
    threads = 0 /\ mainPc \in {"idle", "cmp_ret", "rm_ret"} /\ wPc = [w \in 1..MaxThreads |-> "none"]
        => /\ Range(workItems) = Range(queue)
           /\ Len(workItems) = Len(queue)
           /\ \A i \in Range(workItems) : ~items[i].completed /\ execCount[i] = 0

\* Without workers Complete(3) is at its return with an item of priority 1
\* left queued and live, and another item back in the free list.
UnthreadedCompleteLeftLowPriority ==
    /\ threads = 0 /\ mainPc = "cmp_ret" /\ arg = 3
    /\ Len(queue) = 1 /\ items[queue[1]].priority = 1
    /\ poolItems # <<>>

\* C39: when Complete(0) is at its return, with or without workers, the
\* queue and the live list are empty and no thread holds an item; in the
\* purge of Complete(0) every item of the live list is completed, has been
\* invoked exactly once in this submission and is not queued, and the purge
\* empties the live list.
CompleteZeroEmptiesAll ==
    [][/\ mainPc = "cmp_ret" /\ arg = 0 =>
            /\ queue = <<>> /\ workItems = <<>>
            /\ curItem = Null /\ \A w \in Workers : wItem[w] = Null
            /\ \A i \in Items : execCount[i] = 0
       /\ mainPc = "cmp_purge" /\ arg = 0 =>
            /\ queue = <<>>
            /\ \A i \in Range(workItems) : items[i].completed /\ execCount[i] = 1
       /\ mainPc = "cmp_purge" /\ arg = 0 /\ mainPc' # mainPc =>
            mainPc' = "cmp_ret" /\ workItems' = <<>> /\ queue' = <<>>]_vars

\* The purge of Complete(0) is about to erase two completed items, with
\* workers parked.
CompleteZeroPurgesTwo ==
    /\ mainPc = "cmp_purge" /\ arg = 0 /\ threads > 0 /\ paused
    /\ Len(workItems) = 2
    /\ \E w \in Workers : wPc[w] = "lock"

\* Complete(0) is at its return with workers present and both items back
\* in the free list.
CompleteZeroReturns ==
    /\ mainPc = "cmp_ret" /\ arg = 0 /\ threads > 0
    /\ Len(poolItems) = 2 /\ workItems = <<>>

\* C36: the state in which PurgePool returns is one in which a PurgePool
\* called again at once, with the free list untouched in between, removes
\* nothing.
PurgePoolStable ==
    [][mainPc = "pool" /\ mainPc' = "idle" =>
          /\ PurgePoolCount(poolItems', lastSize') = 0
          /\ PurgePool(poolItems', lastSize') = poolItems']_vars

\* C32: every call of Complete reaches its return, whether the scheduler
\* was paused or running at the call and with or without workers: the
\* drain loop ends, the busy wait on IsCompleted ends, and the call goes
\* through its purge to the return.
CompleteReturns ==
    /\ completing ~> (mainPc = "cmp_ret")
    /\ (mainPc \in {"cmp_loop", "cmp_lock", "cmp_locked", "cmp_run", "cmp_nt", "cmp_nt_run"})
          ~> (mainPc \in {"cmp_wait", "cmp_purge"})
    /\ (mainPc = "cmp_wait") ~> (mainPc = "cmp_check")
    /\ (mainPc = "cmp_ret") ~> (mainPc = "idle")

\* Complete(3) waits for a worker that is running an item of priority 3,
\* having been called on a paused scheduler.
CompleteWaitsForWorker ==
    /\ mainPc = "cmp_wait" /\ arg = 3 /\ ~IsCompleted(arg)
    /\ \E w \in Workers : wPc[w] = "run" /\ items[wItem[w]].priority = 3
    /\ pausedBy = "none" /\ ~paused

\* Complete is called on a scheduler that Pause() has paused, with a worker
\* waiting for the mutex and work queued.
CompleteCalledWhilePaused ==
    /\ mainPc = "resume" /\ retPc = "cmp_loop" /\ completing
    /\ paused /\ pausedBy = "Pause" /\ queue # <<>>
    /\ \E w \in Workers : wPc[w] = "lock"

\* C37: whenever the main thread is between two calls, paused_ is set
\* exactly when the main thread owns the queue mutex, with or without
\* workers; where the main thread is about to lock the mutex it does not
\* own it, and where it is about to unlock it, it does.
PausedIffMutexHeld ==
    /\ mainPc = "idle" => (paused <=> queueMutex = {Main}) /\ ~pausing
    /\ Main \notin queueMutex => queueMutex = {}
    /\ mainPc \in {"pause_lock", "cmp_lock"} => queueMutex = {}
    /\ mainPc = "add_lock" /\ threads > 0 /\ ~paused => queueMutex = {}
    /\ mainPc \in {"add_unlock", "cmp_locked"} => queueMutex = {Main}
    /\ mainPc = "resume" /\ paused => queueMutex = {Main}
    /\ mainPc = "resume_flag" => Main \notin queueMutex

\* Without workers the scheduler has been paused and an item submitted
\* since: it is still paused and the main thread still owns the mutex.
PausedWithoutWorkers ==
    /\ threads = 0 /\ mainPc = "idle"
    /\ paused /\ queueMutex = {Main} /\ pausedBy = "Pause"
    /\ queue # <<>>

\* C33: once the destructor has set shutDown_, every worker reaches
\* "stopped" and the destructor returns, also when the scheduler was paused
\* with workers waiting for the mutex; shutDown_ is never cleared; a worker
\* leaves its loop only with shutDown_ set; and a stopped worker stays
\* stopped, takes no item and leaves the queue alone.
WorkersStopAfterShutdown ==
    /\ shutDown ~> (\A w \in Workers : wPc[w] = "stopped")
    /\ shutDown ~> (mainPc = "destroyed")
    /\ [][/\ shutDown => shutDown'
          /\ \A w \in Workers :
                /\ wPc[w] # "stopped" /\ wPc'[w] = "stopped" => shutDown /\ wPc[w] = "top"
                /\ wPc[w] = "stopped" =>
                      /\ wPc'[w] = "stopped"
                      /\ wItem'[w] = wItem[w]
                      /\ wasActive'[w] = wasActive[w]
                      /\ ~ENABLED WorkerStep(w)]_vars

\* The destructor runs on a scheduler paused by Pause(), with two workers
\* waiting for the mutex and an item queued.
ShutdownWhilePaused ==
    /\ shutDown /\ mainPc = "resume" /\ retPc = "stop"
    /\ paused /\ queueMutex = {Main} /\ queue # <<>>
    /\ threads = 2 /\ \A w \in Workers : wPc[w] = "lock"

\* The scheduler is destroyed, both workers have stopped and an item is
\* left in the queue that no worker took.
StoppedWorkersLeaveQueue ==
    /\ mainPc = "destroyed" /\ threads = 2
    /\ \A w \in Workers : wPc[w] = "stopped"
    /\ queue # <<>>

\* C35: RemoveWorkItem and RemoveWorkItems always return: the calling
\* thread never arrives at their lock_guard as the owner of the queue
\* mutex, and never stays inside the constructor of the lock_guard for ever.
RemoveAlwaysReturns ==
    /\ mainPc \in {"rm_lock", "rms_lock"} => Main \notin queueMutex
    /\ mainPc # "hung"
====
